---- MODULE Spec2Model ----
(***************************************************************************)
(* A model of the opencrm client library: the facade client and its        *)
(* construction (client.py), the HTTP transport (client.py), the three      *)
(* authentication strategies and the session login (auth.py), the           *)
(* exception taxonomy (exceptions.py), the query builder (utils/query.py)   *)
(* and the module resources (resources/base.py).                            *)
(*                                                                          *)
(* Python str values are sequences of one-character strings, so that        *)
(* formatting, trimming and decoding are computed and not assumed.  Python  *)
(* objects of other types are tagged records (see VNull .. VList).  A       *)
(* dict is a function over a fixed universe of keys whose value is Absent   *)
(* where the dict has no such key.                                          *)
(***************************************************************************)
EXTENDS Integers, Sequences, FiniteSets, TLC

(***************************************************************************)
(* Bounds of the model.                                                     *)
(***************************************************************************)
\* httpx sessions a transport may create in a behaviour
MaxSessions == 2
\* dict objects a caller and the strategies it applies may create
MaxDicts == 3
\* query builders a behaviour may create
MaxBuilders == 2
\* conditions the query builders of a behaviour may hold together
MaxConds == 2
\* records the server may hold
MaxRecords == 5
\* the largest batch size a caller of iterate asks for
MaxBatch == 2
\* generators a behaviour may create
MaxGens == 1
\* list calls a generator may make to a server that honours no window
MaxFetches == 3
\* query builders of a caller that filters the calls of a resource
FilterBuilders == 1

(***************************************************************************)
(* Values.                                                                  *)
(***************************************************************************)
\* a key a dict does not hold, an attribute an object does not have
Absent == [t |-> "absent"]
VNull == [t |-> "null"]
VBool(b) == [t |-> "bool", b |-> b]
VInt(n) == [t |-> "int", n |-> n]
VStr(s) == [t |-> "str", s |-> s]
VDict(d) == [t |-> "dict", d |-> d]
VList(l) == [t |-> "list", l |-> l]

\* the keys of request bodies and of decoded JSON objects
kCrmid == <<"c", "r", "m", "i", "d">>
kName == <<"n", "a", "m", "e">>
kApikey == <<"a", "p", "i", "k", "e", "y">>
kPasskey == <<"p", "a", "s", "s", "k", "e", "y">>
kAccesskey == <<"a", "c", "c", "e", "s", "s", "k", "e", "y">>
kKey == <<"k", "e", "y">>
kRecordId == <<"r", "e", "c", "o", "r", "d", "_", "i", "d">>
kQueryString == <<"q", "u", "e", "r", "y", "_", "s", "t", "r", "i", "n", "g">>
kKeywords == <<"k", "e", "y", "w", "o", "r", "d", "s">>
kLimitStart == <<"l", "i", "m", "i", "t", "_", "s", "t", "a", "r", "t">>
kLimitEnd == <<"l", "i", "m", "i", "t", "_", "e", "n", "d">>
Keys ==
    { kCrmid, kName, kApikey, kPasskey, kAccesskey, kKey,
      kRecordId, kQueryString, kKeywords, kLimitStart, kLimitEnd }
\* the names of request headers
hUserAgent == <<"U", "s", "e", "r", "-", "A", "g", "e", "n", "t">>
hContentType == <<"C", "o", "n", "t", "e", "n", "t", "-", "T", "y", "p", "e">>
hKEY1 == <<"K", "E", "Y", "1">>
hKEY2 == <<"K", "E", "Y", "2">>
HeaderNames == {hUserAgent, hContentType, hKEY1, hKEY2}

\* {} over a universe of keys
EmptyDict(K) == [k \in K |-> Absent]
\* {**d, k: v}
Put(d, k, v) == [d EXCEPT ![k] = v]
\* the keys a dict holds
KeysOf(d) == {k \in DOMAIN d : d[k] # Absent}

\* Python truthiness (bool(v)), as used by `not x`, `x or y`, `if x`
Truthy(v) ==
    CASE v.t = "null" -> FALSE
      [] v.t = "absent" -> FALSE
      [] v.t = "bool" -> v.b
      [] v.t = "int" -> v.n # 0
      [] v.t = "str" -> v.s # <<>>
      [] v.t = "dict" -> KeysOf(v.d) # {}
      [] v.t = "list" -> v.l # <<>>
      \* an object of a class without __bool__ and __len__
      [] v.t = "ref" -> TRUE

(***************************************************************************)
(* Text.                                                                    *)
(***************************************************************************)
Whitespace == {" ", "\t", "\n", "\r"}
Digits == <<"0", "1", "2", "3", "4", "5", "6", "7", "8", "9">>
DigitChars == {Digits[i] : i \in 1..10}
DigitValue(c) == (CHOOSE i \in 1..10 : Digits[i] = c) - 1

\* str.strip(): the text without its leading and trailing whitespace
Strip(s) ==
    LET keep == {i \in 1..Len(s) : s[i] \notin Whitespace}
    IN IF keep = {} THEN <<>>
       ELSE LET lo == CHOOSE i \in keep : \A j \in keep : i <= j
                hi == CHOOSE i \in keep : \A j \in keep : j <= i
            IN SubSeq(s, lo, hi)

\* whether s is a non-empty text of the decimal digits 0..9
IsDigit(s) == s # <<>> /\ \A i \in 1..Len(s) : s[i] \in DigitChars
\* the character U+00B2 (superscript two): a digit to str.isdigit(), which
\* accepts every character of Unicode property Digit, and no decimal to int()
SuperscriptTwo == "U+00B2"
\* str.isdigit()
isdigit(s) ==
    s # <<>> /\ \A i \in 1..Len(s) : s[i] \in DigitChars \cup {SuperscriptTwo}

\* the number a text of decimal digits denotes
RECURSIVE DigitsToInt(_)
DigitsToInt(s) ==
    IF s = <<>> THEN 0
    ELSE 10 * DigitsToInt(SubSeq(s, 1, Len(s) - 1)) + DigitValue(s[Len(s)])

\* str(n) for an integer n
RECURSIVE NatToText(_)
NatToText(n) ==
    IF n < 10 THEN <<Digits[n + 1]>>
    ELSE NatToText(n \div 10) \o <<Digits[(n % 10) + 1]>>
IntToText(n) == IF n < 0 THEN <<"-">> \o NatToText(0 - n) ELSE NatToText(n)

(***************************************************************************)
(* JSON decoding, as response.json() does it, for the JSON texts of the     *)
(* model: null, true, false, integers, strings without escapes, arrays, and *)
(* objects whose member names are in Keys (a dict of the model has no       *)
(* other key).  The result is the decoded value, or JsonError where json()  *)
(* raises.                                                                  *)
(***************************************************************************)
JsonError == [t |-> "error"]
Quote == "\""

\* whether position i of s lies inside a string literal
InString(s, i) == Cardinality({j \in 1..(i - 1) : s[j] = Quote}) % 2 = 1
\* the nesting depth of position i of s
DepthAt(s, i) ==
    Cardinality({j \in 1..(i - 1) : s[j] \in {"{", "["} /\ ~InString(s, j)})
    - Cardinality({j \in 1..(i - 1) : s[j] \in {"}", "]"} /\ ~InString(s, j)})
\* the positions of separator c at the top level of s
TopLevel(s, c) ==
    {i \in 1..Len(s) : s[i] = c /\ ~InString(s, i) /\ DepthAt(s, i) = 0}
\* s cut at the positions P
SplitAt(s, P) ==
    LET cut(k) == IF k = 0 THEN 0
                  ELSE IF k = Cardinality(P) + 1 THEN Len(s) + 1
                  ELSE CHOOSE p \in P : Cardinality({q \in P : q < p}) = k - 1
    IN [k \in 1..(Cardinality(P) + 1) |-> SubSeq(s, cut(k - 1) + 1, cut(k) - 1)]

IsJsonString(s) ==
    /\ Len(s) >= 2
    /\ s[1] = Quote
    /\ s[Len(s)] = Quote
    /\ \A i \in 2..(Len(s) - 1) : s[i] \notin {Quote, "\\", "\n", "\t", "\r"}
IsJsonInt(s) ==
    LET d == IF s # <<>> /\ s[1] = "-" THEN Tail(s) ELSE s
    IN IsDigit(d) /\ (Len(d) > 1 => d[1] # "0")

RECURSIVE JsonDecode(_)
JsonDecode(text) ==
    LET s == Strip(text)
        inner == Strip(SubSeq(s, 2, Len(s) - 1))
        parts == SplitAt(inner, TopLevel(inner, ","))
    IN CASE s = <<"n", "u", "l", "l">> -> VNull
         [] s = <<"t", "r", "u", "e">> -> VBool(TRUE)
         [] s = <<"f", "a", "l", "s", "e">> -> VBool(FALSE)
         [] IsJsonInt(s) ->
                IF s[1] = "-" THEN VInt(0 - DigitsToInt(Tail(s)))
                ELSE VInt(DigitsToInt(s))
         [] IsJsonString(s) -> VStr(SubSeq(s, 2, Len(s) - 1))
         [] Len(s) >= 2 /\ s[1] = "[" /\ s[Len(s)] = "]" ->
                IF inner = <<>> THEN VList(<<>>)
                ELSE LET items == [k \in DOMAIN parts |-> JsonDecode(parts[k])]
                     IN IF \E k \in DOMAIN items : items[k] = JsonError
                        THEN JsonError
                        ELSE VList(items)
         [] Len(s) >= 2 /\ s[1] = "{" /\ s[Len(s)] = "}" ->
                IF inner = <<>> THEN VDict(EmptyDict(Keys))
                ELSE LET colon(k) == TopLevel(parts[k], ":")
                         first(k) == CHOOSE p \in colon(k) : \A q \in colon(k) : p <= q
                         name(k) == Strip(SubSeq(parts[k], 1, first(k) - 1))
                         value(k) == JsonDecode(SubSeq(parts[k], first(k) + 1, Len(parts[k])))
                         \* the key that member k names
                         keyOf(k) == SubSeq(name(k), 2, Len(name(k)) - 1)
                         wellFormed(k) ==
                             /\ colon(k) # {}
                             /\ IsJsonString(name(k))
                             /\ keyOf(k) \in Keys
                             /\ value(k) # JsonError
                         last(key) ==
                             CHOOSE k \in DOMAIN parts :
                                 /\ keyOf(k) = key
                                 /\ \A j \in DOMAIN parts : keyOf(j) = key => j <= k
                     IN IF \E k \in DOMAIN parts : ~wellFormed(k)
                        THEN JsonError
                        ELSE VDict([key \in Keys |->
                                 IF \E k \in DOMAIN parts : keyOf(k) = key
                                 THEN value(last(key))
                                 ELSE Absent])
         [] OTHER -> JsonError

\* the bodies of the responses to a login and to a request of the transport
PlainBodies ==
    { <<>>,
      <<" ">>,
      <<"4", "2">>,
      <<"o", "k">>,
      <<" ", "T", "9", "\n">>,
      <<"n", "u", "l", "l">>,
      <<"[", "4", "2", "]">>,
      <<"{", "}">>,
      <<"{", Quote, "n", "a", "m", "e", Quote, ":", Quote, "x", Quote, "}">>,
      <<"{", Quote, "a", "c", "c", "e", "s", "s", "k", "e", "y", Quote, ":",
        Quote, "S", "1", Quote, "}">>,
      <<"{", Quote, "a", "c", "c", "e", "s", "s", "k", "e", "y", Quote, ":",
        Quote, Quote, "}">>,
      <<"{", Quote, "a", "c", "c", "e", "s", "s", "k", "e", "y", Quote, ":",
        "7", "}">> }

\* the record the server holds at position i, and its JSON text
Record(i) == VDict(Put(EmptyDict(Keys), kCrmid, VInt(i)))
RecordText(i) == <<"{", Quote, "c", "r", "m", "i", "d", Quote, ":">> \o IntToText(i) \o <<"}">>
\* the JSON array of the records lo+1 .. hi
RECURSIVE RecordTexts(_, _)
RecordTexts(lo, hi) ==
    IF lo >= hi THEN <<>>
    ELSE IF lo + 1 = hi THEN RecordText(hi)
    ELSE RecordTexts(lo, hi - 1) \o <<",">> \o RecordText(hi)
ListText(lo, hi) == <<"[">> \o RecordTexts(lo, hi) \o <<"]">>
\* the bodies of a server that answers a list request with records
WindowBodies ==
    {ListText(lo, hi) : lo \in 0..MaxRecords, hi \in 0..MaxRecords}

\* the bodies of the responses to a request of a resource: nothing, numbers,
\* JSON strings and raw texts of digits and of other characters, booleans,
\* objects with and without record_id, arrays
ResourceBodies ==
    { <<>>,
      <<"4", "2">>,
      <<"-", "3">>,
      <<Quote, "4", "2", Quote>>,
      <<"0", "4", "2">>,
      <<"o", "k">>,
      <<SuperscriptTwo>>,
      <<"n", "u", "l", "l">>,
      <<"t", "r", "u", "e">>,
      <<"{", "}">>,
      <<"{", Quote, "n", "a", "m", "e", Quote, ":", Quote, "x", Quote, "}">>,
      <<"{", Quote, "r", "e", "c", "o", "r", "d", "_", "i", "d", Quote, ":", Quote, "7", Quote, "}">>,
      <<"{", Quote, "r", "e", "c", "o", "r", "d", "_", "i", "d", Quote, ":", "7", "}">>,
      <<"{", Quote, "r", "e", "c", "o", "r", "d", "_", "i", "d", Quote, ":", Quote, "x", Quote, "}">>,
      <<"{", Quote, "r", "e", "c", "o", "r", "d", "_", "i", "d", Quote, ":", "n", "u", "l", "l", "}">>,
      <<"[", "]">>,
      <<"[", "4", "2", "]">>,
      <<"[", "{", Quote, "n", "a", "m", "e", Quote, ":", Quote, "x", Quote, "}", ",", "4", "2", ",", "{", Quote, "c", "r", "m", "i", "d", Quote, ":", "1", "}", "]">> }

\* response.json() for every body of the model, decoded once
BodyTexts == PlainBodies \cup WindowBodies \cup ResourceBodies
\* (@@ makes TLC build the table once instead of decoding at every use)
JsonTable == [b \in BodyTexts |-> JsonDecode(b)] @@ <<>>

(***************************************************************************)
(* What the network gives back to one HTTP call: a response (its status and *)
(* its body text), or a network-level failure (httpx.RequestError) with the *)
(* failure's text.                                                          *)
(***************************************************************************)
Response(status, text) ==
    [kind |-> "response", status_code |-> status, text |-> text]
RequestError(text) ==
    [kind |-> "RequestError", status_code |-> 0, text |-> text]
\* response.json(): the decoded body, or JsonError where it raises
json(response) == JsonTable[response.text]
\* httpx's Response.is_success, which raise_for_status() tests
is_success(response) ==
    200 <= response.status_code /\ response.status_code <= 299

(***************************************************************************)
(* exceptions.py                                                            *)
(***************************************************************************)
\* the base class of each exception class
BaseOf(cls) ==
    CASE cls = "OpenCRMError" -> "Exception"
      [] cls = "AuthenticationError" -> "OpenCRMError"
      [] cls = "APIError" -> "OpenCRMError"
      [] cls = "RateLimitError" -> "APIError"
      [] cls = "NotFoundError" -> "APIError"
      [] cls = "ValidationError" -> "OpenCRMError"
      [] cls = "ConfigurationError" -> "OpenCRMError"
      [] cls = "ConnectionError" -> "OpenCRMError"
      [] OTHER -> "object"

\* isinstance(e, cls): what `except cls` catches
RECURSIVE IsSubclass(_, _)
IsSubclass(c, cls) ==
    \/ c = cls
    \/ c \notin {"object", "Exception"} /\ IsSubclass(BaseOf(c), cls)
IsInstance(e, cls) == IsSubclass(e.cls, cls)

\* the keys of an exception's details
kResponse == <<"r", "e", "s", "p", "o", "n", "s", "e">>
DetailKeys == {kResponse}

\* OpenCRMError.__init__ of class cls; details is a dict, or VNull for None
OpenCRMError(cls, message, details) ==
    [ cls |-> cls,
      message |-> message,
      details |-> IF Truthy(details) THEN details ELSE VDict(EmptyDict(DetailKeys)),
      status_code |-> Absent,
      response_body |-> Absent ]
\* APIError.__init__ of class cls, called without details
APIError(cls, message, status_code, response_body) ==
    [ OpenCRMError(cls, message, VNull) EXCEPT
        !.status_code = status_code,
        !.response_body = response_body ]

\* how a call ends: with a value, or with an exception
Return(v) == [kind |-> "return", value |-> v, exc |-> Absent]
Raise(e) == [kind |-> "raise", value |-> Absent, exc |-> e]

\* an exception of a builtin class (ValueError, TypeError, StopIteration)
BuiltinError(cls) ==
    [ cls |-> cls, message |-> <<>>, details |-> Absent,
      status_code |-> Absent, response_body |-> Absent ]

\* int(v): an int as it is, a bool as 0 or 1, a text of decimal digits with
\* an optional sign and surrounding whitespace as its number; ValueError
\* for any other text, TypeError for None, a dict or a list
int(v) ==
    CASE v.t = "int" -> Return(v)
      [] v.t = "bool" -> Return(VInt(IF v.b THEN 1 ELSE 0))
      [] v.t = "str" ->
            IF IsDigit(Strip(v.s))
            THEN Return(VInt(DigitsToInt(Strip(v.s))))
            ELSE IF Strip(v.s) # <<>> /\ Strip(v.s)[1] = "-" /\ IsDigit(Tail(Strip(v.s)))
            THEN Return(VInt(0 - DigitsToInt(Tail(Strip(v.s)))))
            ELSE IF Strip(v.s) # <<>> /\ Strip(v.s)[1] = "+" /\ IsDigit(Tail(Strip(v.s)))
            THEN Return(VInt(DigitsToInt(Tail(Strip(v.s)))))
            ELSE Raise(BuiltinError("ValueError"))
      [] OTHER -> Raise(BuiltinError("TypeError"))

(***************************************************************************)
(* auth.py: the three strategies.  A strategy is applied to a dict object   *)
(* of a heap, a sequence of dicts addressed by position, and gives back the *)
(* heap after the call and the position of the dict it returns.             *)
(***************************************************************************)
APIKeyAuth(api_key, pass_key) ==
    [ cls |-> "APIKeyAuth", api_key |-> api_key, pass_key |-> pass_key,
      access_key |-> Absent ]
HeaderAuth(api_key, pass_key) ==
    [ cls |-> "HeaderAuth", api_key |-> api_key, pass_key |-> pass_key,
      access_key |-> Absent ]
SessionAuth(access_key) ==
    [ cls |-> "SessionAuth", api_key |-> Absent, pass_key |-> Absent,
      access_key |-> access_key ]

\* a new dict object
Alloc(heap, d) == [heap |-> Append(heap, d), ref |-> Len(heap) + 1]
\* the object itself
Same(heap, ref) == [heap |-> heap, ref |-> ref]

\* `{"apikey": self.api_key, "passkey": self.pass_key, **data}`: the keys of
\* the caller win
APIKeyAuth_caller_wins(self, heap, data) ==
    Alloc(heap, [k \in Keys |->
                   IF heap[data][k] # Absent THEN heap[data][k]
                   ELSE IF k = kApikey THEN self.api_key
                   ELSE IF k = kPasskey THEN self.pass_key
                   ELSE Absent])
\* `{**data, "apikey": self.api_key, "passkey": self.pass_key}`
APIKeyAuth_apply_to_request(self, heap, data) ==
    Alloc(heap, Put(Put(heap[data], kApikey, self.api_key), kPasskey, self.pass_key))
\* `return headers`
APIKeyAuth_apply_to_headers(self, heap, headers) ==
    Same(heap, headers)
\* `return data`
HeaderAuth_apply_to_request(self, heap, data) ==
    Same(heap, data)
\* `{**headers, "KEY1": self.api_key, "KEY2": self.pass_key}`
HeaderAuth_apply_to_headers(self, heap, headers) ==
    Alloc(heap, Put(Put(heap[headers], hKEY1, self.api_key), hKEY2, self.pass_key))
\* `data["accesskey"] = self.access_key; return data`: the dict of the
\* caller is updated in place
SessionAuth_update_in_place(self, heap, data) ==
    [heap |-> [heap EXCEPT ![data] = Put(@, kAccesskey, self.access_key)], ref |-> data]
\* `{**data, "accesskey": self.access_key}`
SessionAuth_apply_to_request(self, heap, data) ==
    Alloc(heap, Put(heap[data], kAccesskey, self.access_key))
\* `return headers`
SessionAuth_apply_to_headers(self, heap, headers) ==
    Same(heap, headers)

\* auth.apply_to_request(data), dispatched on the class of auth
apply_to_request(auth, heap, data) ==
    CASE auth.cls = "APIKeyAuth" -> APIKeyAuth_apply_to_request(auth, heap, data)
      [] auth.cls = "HeaderAuth" -> HeaderAuth_apply_to_request(auth, heap, data)
      [] auth.cls = "SessionAuth" -> SessionAuth_apply_to_request(auth, heap, data)
\* auth.apply_to_headers(headers), dispatched on the class of auth
apply_to_headers(auth, heap, headers) ==
    CASE auth.cls = "APIKeyAuth" -> APIKeyAuth_apply_to_headers(auth, heap, headers)
      [] auth.cls = "HeaderAuth" -> HeaderAuth_apply_to_headers(auth, heap, headers)
      [] auth.cls = "SessionAuth" -> SessionAuth_apply_to_headers(auth, heap, headers)

(***************************************************************************)
(* An HTTP call as it is put on the wire.  `via` is the position of the     *)
(* httpx session that sends it, 0 for the module-level httpx.post; `data`   *)
(* and `params` are a dict or None.                                         *)
(***************************************************************************)
HttpCall(via, method, url, data, params, headers, timeout) ==
    [ via |-> via, method |-> method, url |-> url, data |-> data,
      params |-> params, headers |-> headers, timeout |-> timeout ]

GET == <<"G", "E", "T">>
POST == <<"P", "O", "S", "T">>
MultipartFormData ==
    <<"m", "u", "l", "t", "i", "p", "a", "r", "t", "/",
      "f", "o", "r", "m", "-", "d", "a", "t", "a">>
\* the seconds of the timeout httpx.post is given in from_login
LoginTimeout == 30

\* `response.text.strip()` whatever the body decodes to
SessionAuth_access_key_from_text(decoded, stripped) == stripped

\* `response.json().get("accesskey") or response.text.strip()` with
\* `except Exception: response.text.strip()` around it, given the decoded
\* body and the stripped text: json() raises on a body that is no JSON, .get
\* raises on a decoded value that is no dict
SessionAuth_access_key(decoded, stripped) ==
    IF decoded = JsonError THEN stripped
    ELSE IF decoded.t # "dict" THEN stripped
    ELSE IF Truthy(decoded.d[kAccesskey]) THEN decoded.d[kAccesskey]
    ELSE stripped

\* a login that accepts whatever key a response of any status yields
SessionAuth_login_result_unchecked(outcome, access_key) ==
    IF outcome.kind = "RequestError"
    THEN Raise(OpenCRMError("AuthenticationError",
             <<"L", "o", "g", "i", "n", " ", "r", "e", "q", "u", "e", "s", "t",
               " ", "f", "a", "i", "l", "e", "d", ":", " ">> \o outcome.text,
             VNull))
    ELSE Return(SessionAuth(access_key))

\* how from_login ends, given the answer to its httpx.post and the access
\* key it computes from a response
SessionAuth_login_result(outcome, access_key) ==
    IF outcome.kind = "RequestError"
    THEN Raise(OpenCRMError("AuthenticationError",
             <<"L", "o", "g", "i", "n", " ", "r", "e", "q", "u", "e", "s", "t",
               " ", "f", "a", "i", "l", "e", "d", ":", " ">> \o outcome.text,
             VNull))
    ELSE IF ~is_success(outcome)
    THEN Raise(OpenCRMError("AuthenticationError",
             <<"L", "o", "g", "i", "n", " ", "f", "a", "i", "l", "e", "d", " ",
               "w", "i", "t", "h", " ", "s", "t", "a", "t", "u", "s", " ">>
                 \o IntToText(outcome.status_code),
             VDict(Put(EmptyDict(DetailKeys), kResponse, VStr(outcome.text)))))
    ELSE IF ~Truthy(access_key)
    THEN Raise(OpenCRMError("AuthenticationError",
             <<"L", "o", "g", "i", "n", " ", "s", "u", "c", "c", "e", "e", "d",
               "e", "d", " ", "b", "u", "t", " ", "n", "o", " ", "a", "c", "c",
               "e", "s", "s", " ", "k", "e", "y", " ", "r", "e", "t", "u", "r",
               "n", "e", "d">>,
             VDict(Put(EmptyDict(DetailKeys), kResponse, VStr(outcome.text)))))
    ELSE Return(SessionAuth(access_key))

\* SessionAuth.from_login, given what the network gives back to its
\* httpx.post: the call it puts on the wire and how it ends
SessionAuth_from_login(base_url, api_key, pass_key, user_agent, outcome) ==
    [ calls |->
          << HttpCall(0, POST,
                      base_url \o <<"/", "a", "p", "i", "/", "r", "e", "s", "t", "/",
                                    "l", "o", "g", "i", "n">>,
                      VDict(Put(Put(EmptyDict(Keys), kKey, VStr(api_key)),
                                kPasskey, VStr(pass_key))),
                      VNull,
                      Put(Put(EmptyDict(HeaderNames), hUserAgent, VStr(user_agent)),
                          hContentType, VStr(MultipartFormData)),
                      LoginTimeout) >>,
      result |->
          SessionAuth_login_result(outcome,
                       SessionAuth_access_key(json(outcome), VStr(Strip(outcome.text)))) ]

(***************************************************************************)
(* client.py: HTTPClient.  _client is the position of the transport's       *)
(* httpx session among the sessions created so far, 0 for None.             *)
(***************************************************************************)
DEFAULT_USER_AGENT ==
    <<"o", "p", "e", "n", "c", "r", "m", "-", "p", "y", "t", "h", "o", "n", "/",
      "0", ".", "1", ".", "0">>
DEFAULT_TIMEOUT == 30

\* HTTPClient.__init__
HTTPClient(system_name, auth, user_agent, timeout) ==
    [ _base_url |->
          <<"h", "t", "t", "p", "s", ":", "/", "/">> \o system_name
            \o <<".", "o", "p", "e", "n", "c", "r", "m", ".", "c", "o", ".", "u", "k",
                 "/", "a", "p", "i", "/", "r", "e", "s", "t">>,
      _auth |-> auth,
      _user_agent |-> user_agent,
      _timeout |-> timeout,
      _client |-> 0 ]

\* httpx.Client(timeout=..., headers=...): a new open session
HttpxClient(timeout, headers) ==
    [timeout |-> timeout, headers |-> headers, is_closed |-> FALSE]

\* a property that opens a new session at every access
HTTPClient_client_always_new(self, sessions) ==
    [ self |-> [self EXCEPT !._client = Len(sessions) + 1],
      sessions |->
          Append(sessions,
                 HttpxClient(self._timeout,
                             Put(EmptyDict(HeaderNames), hUserAgent,
                                 VStr(self._user_agent)))),
      ref |-> Len(sessions) + 1 ]

\* the property HTTPClient.client: the transport and the sessions after the
\* access, and the session it returns
HTTPClient_client(self, sessions) ==
    IF self._client = 0
    THEN [ self |-> [self EXCEPT !._client = Len(sessions) + 1],
           sessions |->
               Append(sessions,
                      HttpxClient(self._timeout,
                                  Put(EmptyDict(HeaderNames), hUserAgent,
                                      VStr(self._user_agent)))),
           ref |-> Len(sessions) + 1 ]
    ELSE [self |-> self, sessions |-> sessions, ref |-> self._client]

\* a close that forgets the session without closing it
HTTPClient_close_leaks(self, sessions) ==
    [self |-> [self EXCEPT !._client = 0], sessions |-> sessions]

\* a close that forgets the credentials with the session
HTTPClient_close_forgets_auth(self, sessions) ==
    IF self._client # 0
    THEN [ self |-> [self EXCEPT !._client = 0,
                                 !._auth = HeaderAuth(VStr(<<>>), VStr(<<>>))],
           sessions |-> [sessions EXCEPT ![self._client].is_closed = TRUE] ]
    ELSE [self |-> self, sessions |-> sessions]

\* HTTPClient.close
HTTPClient_close(self, sessions) ==
    IF self._client # 0
    THEN [ self |-> [self EXCEPT !._client = 0],
           sessions |-> [sessions EXCEPT ![self._client].is_closed = TRUE] ]
    ELSE [self |-> self, sessions |-> sessions]

\* HTTPClient.__exit__
HTTPClient_exit(self, sessions) == HTTPClient_close(self, sessions)

\* the dict at the position a strategy returned
Deref(applied) == applied.heap[applied.ref]

\* HTTPClient._build_headers
HTTPClient_build_headers(self) ==
    Deref(apply_to_headers(self._auth,
                           << Put(Put(EmptyDict(HeaderNames), hUserAgent,
                                      VStr(self._user_agent)),
                                  hContentType, VStr(MultipartFormData)) >>,
                           1))

\* str(v) of a value a caller puts in a request body
str(v) ==
    CASE v.t = "str" -> v.s
      [] v.t = "int" -> IntToText(v.n)
      [] v.t = "bool" ->
            IF v.b THEN <<"T", "r", "u", "e">> ELSE <<"F", "a", "l", "s", "e">>

\* a _build_data that sends a null value as the text None
HTTPClient_build_data_keeps_null(self, data) ==
    Deref(apply_to_request(self._auth,
                           << [k \in Keys |->
                                 IF data[k] = Absent THEN Absent
                                 ELSE IF data[k] = VNull THEN VStr(<<"N", "o", "n", "e">>)
                                 ELSE VStr(str(data[k]))] >>,
                           1))

\* HTTPClient._build_data
HTTPClient_build_data(self, data) ==
    Deref(apply_to_request(self._auth,
                           << [k \in Keys |->
                                 IF data[k] = Absent \/ data[k] = VNull THEN Absent
                                 ELSE VStr(str(data[k]))] >>,
                           1))

\* a fallback that gives the raw text back whatever the body decodes to
HTTPClient_text_only(response, decoded) == Return(VStr(response.text))

\* the end of HTTPClient._handle_response for a status below 400, given the
\* decoded body: `try: return response.json()` / `except Exception: return
\* response.text`
HTTPClient_decoded_or_text(response, decoded) ==
    IF decoded # JsonError THEN Return(decoded) ELSE Return(VStr(response.text))

\* a classification that knows one error only
HTTPClient_handle_response_one_error(response) ==
    IF response.status_code >= 400
    THEN Raise(APIError("APIError",
             <<"A", "P", "I", " ", "r", "e", "q", "u", "e", "s", "t", " ",
               "f", "a", "i", "l", "e", "d">>,
             VInt(response.status_code), VStr(response.text)))
    ELSE Return(VStr(response.text))

\* HTTPClient._handle_response
HTTPClient_handle_response(response) ==
    IF response.status_code = 404
    THEN Raise(APIError("NotFoundError",
             <<"R", "e", "s", "o", "u", "r", "c", "e", " ", "n", "o", "t", " ",
               "f", "o", "u", "n", "d">>,
             VInt(404), VStr(response.text)))
    ELSE IF response.status_code = 429
    THEN Raise(APIError("RateLimitError",
             <<"R", "a", "t", "e", " ", "l", "i", "m", "i", "t", " ",
               "e", "x", "c", "e", "e", "d", "e", "d">>,
             VInt(429), VStr(response.text)))
    ELSE IF response.status_code >= 400
    THEN Raise(APIError("APIError",
             <<"A", "P", "I", " ", "r", "e", "q", "u", "e", "s", "t", " ",
               "f", "a", "i", "l", "e", "d">>,
             VInt(response.status_code), VStr(response.text)))
    ELSE IF response.text = <<>>
    THEN Return(VNull)
    ELSE HTTPClient_decoded_or_text(response, json(response))

\* a send that reports a network failure as an API error without a status
HTTPClient_send_as_api_error(got, method, url, request_data, params, headers, outcome) ==
    [ self |-> got.self,
      sessions |-> got.sessions,
      calls |->
          << HttpCall(got.ref, method, url,
                      IF KeysOf(request_data) # {} THEN VDict(request_data) ELSE VNull,
                      params,
                      [h \in HeaderNames |->
                         IF headers[h] # Absent THEN headers[h]
                         ELSE got.sessions[got.ref].headers[h]],
                      got.sessions[got.ref].timeout) >>,
      result |->
          Raise(APIError("APIError",
                   <<"R", "e", "q", "u", "e", "s", "t", " ", "f", "a", "i", "l",
                     "e", "d", ":", " ">> \o outcome.text,
                   VNull, VStr(outcome.text))) ]

\* self.client.request(method=..., url=..., data=..., params=..., headers=...)
\* on the session `got` holds, and what follows it in HTTPClient.request
HTTPClient_send(got, method, url, request_data, params, headers, outcome) ==
    [ self |-> got.self,
      sessions |-> got.sessions,
      calls |->
          << HttpCall(got.ref, method, url,
                      IF KeysOf(request_data) # {} THEN VDict(request_data) ELSE VNull,
                      params,
                      \* httpx sends the session's headers, overridden by the call's
                      [h \in HeaderNames |->
                         IF headers[h] # Absent THEN headers[h]
                         ELSE got.sessions[got.ref].headers[h]],
                      got.sessions[got.ref].timeout) >>,
      result |->
          IF outcome.kind = "RequestError"
          THEN Raise(OpenCRMError("ConnectionError",
                   <<"R", "e", "q", "u", "e", "s", "t", " ", "f", "a", "i", "l",
                     "e", "d", ":", " ">> \o outcome.text,
                   VNull))
          ELSE HTTPClient_handle_response(outcome) ]

\* HTTPClient.request, given what the network gives back: the transport and
\* the sessions after the call, the HTTP call it put on the wire, and how the
\* call ends
HTTPClient_request(self, sessions, method, endpoint, data, params, outcome) ==
    HTTPClient_send(HTTPClient_client(self, sessions),
                    method,
                    self._base_url \o <<"/">> \o endpoint,
                    HTTPClient_build_data(self, IF Truthy(data) THEN data.d ELSE EmptyDict(Keys)),
                    params,
                    HTTPClient_build_headers(self),
                    outcome)

\* HTTPClient.get
HTTPClient_get(self, sessions, endpoint, data, params, outcome) ==
    HTTPClient_request(self, sessions, GET, endpoint, data, params, outcome)
\* HTTPClient.post
HTTPClient_post(self, sessions, endpoint, data, params, outcome) ==
    HTTPClient_request(self, sessions, POST, endpoint, data, params, outcome)

(***************************************************************************)
(* client.py: OpenCRMClient.                                                *)
(***************************************************************************)
AuthKeys == <<"k", "e", "y", "s">>
AuthHeaders == <<"h", "e", "a", "d", "e", "r", "s">>
AuthSession == <<"s", "e", "s", "s", "i", "o", "n">>

\* a constructor that raises: no object is built
NotBuilt(calls, exc) ==
    [calls |-> calls, result |-> Raise(exc), facade |-> Absent, http |-> Absent]
\* the end of OpenCRMClient.__init__ once the strategy is chosen
Built(calls, system_name, auth, user_agent, timeout) ==
    [ calls |-> calls,
      result |-> Return(VNull),
      facade |-> [ _system_name |-> system_name,
                   _user_agent |-> user_agent,
                   _timeout |-> timeout ],
      http |-> HTTPClient(system_name, auth, user_agent, timeout) ]
\* the session branch of OpenCRMClient.__init__, given what from_login did
BuiltFromLogin(login, system_name, user_agent, timeout) ==
    IF login.result.kind = "raise"
    THEN NotBuilt(login.calls, login.result.exc)
    ELSE Built(login.calls, system_name, login.result.value, user_agent, timeout)

\* a constructor that logs in before it looks at its configuration
OpenCRMClient_login_first(system_name, api_key, pass_key, auth_method, user_agent, timeout, outcome) ==
    IF auth_method = AuthSession
    THEN BuiltFromLogin(
             SessionAuth_from_login(<<"h", "t", "t", "p", "s", ":", "/", "/">> \o system_name
                          \o <<".", "o", "p", "e", "n", "c", "r", "m", ".", "c", "o",
                               ".", "u", "k">>,
                        api_key, pass_key, user_agent, outcome),
             system_name, user_agent, timeout)
    ELSE NotBuilt(<<>>, OpenCRMError("ConfigurationError",
             <<"I", "n", "v", "a", "l", "i", "d", " ", "a", "u", "t", "h", "_", "m",
               "e", "t", "h", "o", "d", ":", " ">> \o auth_method, VNull))

\* OpenCRMClient.__init__, given what the network gives back to a login:
\* the HTTP calls it put on the wire, how it ends, and the facade and the
\* transport it has built when it returns
OpenCRMClient(system_name, api_key, pass_key, auth_method, user_agent, timeout, outcome) ==
    IF system_name = <<>>
    THEN NotBuilt(<<>>, OpenCRMError("ConfigurationError",
             <<"s", "y", "s", "t", "e", "m", "_", "n", "a", "m", "e", " ", "i", "s",
               " ", "r", "e", "q", "u", "i", "r", "e", "d">>, VNull))
    ELSE IF api_key = <<>> \/ pass_key = <<>>
    THEN NotBuilt(<<>>, OpenCRMError("ConfigurationError",
             <<"a", "p", "i", "_", "k", "e", "y", " ", "a", "n", "d", " ", "p", "a",
               "s", "s", "_", "k", "e", "y", " ", "a", "r", "e", " ", "r", "e", "q",
               "u", "i", "r", "e", "d">>, VNull))
    ELSE IF auth_method = AuthKeys
    THEN Built(<<>>, system_name, APIKeyAuth(VStr(api_key), VStr(pass_key)),
               user_agent, timeout)
    ELSE IF auth_method = AuthHeaders
    THEN Built(<<>>, system_name, HeaderAuth(VStr(api_key), VStr(pass_key)),
               user_agent, timeout)
    ELSE IF auth_method = AuthSession
    THEN BuiltFromLogin(
             SessionAuth_from_login(<<"h", "t", "t", "p", "s", ":", "/", "/">> \o system_name
                          \o <<".", "o", "p", "e", "n", "c", "r", "m", ".", "c", "o",
                               ".", "u", "k">>,
                        api_key, pass_key, user_agent, outcome),
             system_name, user_agent, timeout)
    ELSE NotBuilt(<<>>, OpenCRMError("ConfigurationError",
             <<"I", "n", "v", "a", "l", "i", "d", " ", "a", "u", "t", "h", "_", "m",
               "e", "t", "h", "o", "d", ":", " ">> \o auth_method, VNull))

\* OpenCRMClient.close: self._http.close()
OpenCRMClient_close(http, sessions) == HTTPClient_close(http, sessions)
\* OpenCRMClient.__exit__: self.close()
OpenCRMClient_exit(http, sessions) == OpenCRMClient_close(http, sessions)

(***************************************************************************)
(* utils/query.py: QueryBuilder.  A builder is an object of a heap, the     *)
(* sequence of the builders created so far; the object is its _conditions.  *)
(* A method gives back the heap after the call and what it returns.         *)
(***************************************************************************)
\* a reference to the builder at a position of the heap
Ref(i) == [t |-> "ref", ref |-> i]

\* QueryBuilder.__init__, and query()
QueryBuilder(heap) ==
    [heap |-> Append(heap, <<>>), ret |-> Ref(Len(heap) + 1)]
\* QueryBuilder.where
QueryBuilder_where(heap, self, field, operator, value) ==
    [ heap |-> [heap EXCEPT ![self] = Append(@, field \o <<"|">> \o operator
                                                  \o <<"|">> \o value)],
      ret |-> Ref(self) ]
\* QueryBuilder.equals
QueryBuilder_equals(heap, self, field, value) ==
    QueryBuilder_where(heap, self, field, <<"=">>, value)
\* a like that asks for an exact match
QueryBuilder_like_exact(heap, self, field, value) ==
    QueryBuilder_where(heap, self, field, <<"=">>, value)
\* QueryBuilder.like
QueryBuilder_like(heap, self, field, value) ==
    QueryBuilder_where(heap, self, field, <<"L", "I", "K", "E">>, value)
\* QueryBuilder.begins_with
QueryBuilder_begins_with(heap, self, field, value) ==
    QueryBuilder_where(heap, self, field, <<"B", "E", "G", "I", "N", "S">>, value)
\* QueryBuilder.ends_with
QueryBuilder_ends_with(heap, self, field, value) ==
    QueryBuilder_where(heap, self, field, <<"E", "N", "D", "S">>, value)
\* QueryBuilder.contains
QueryBuilder_contains(heap, self, field, value) ==
    QueryBuilder_where(heap, self, field,
                       <<"C", "O", "N", "T", "A", "I", "N", "S">>, value)
\* a build that gives the condition added last
QueryBuilder_build_last(heap, self) ==
    [ heap |-> heap,
      ret |-> IF heap[self] = <<>> THEN VNull
              ELSE VStr(heap[self][Len(heap[self])]) ]
\* QueryBuilder.build
QueryBuilder_build(heap, self) ==
    [ heap |-> heap,
      ret |-> IF heap[self] = <<>> THEN VNull
              ELSE IF Len(heap[self]) = 1 THEN VStr(heap[self][1])
              ELSE VStr(heap[self][1]) ]
\* QueryBuilder.clear
QueryBuilder_clear(heap, self) ==
    [heap |-> [heap EXCEPT ![self] = <<>>], ret |-> Ref(self)]

(***************************************************************************)
(* resources/base.py: BaseResource, and the endpoints of its subclasses.    *)
(* A method is given the transport, its sessions and what the network gives *)
(* back to the request it posts; like HTTPClient.request it gives back the  *)
(* transport and the sessions after the call, the HTTP calls it put on the  *)
(* wire and how it ends.                                                    *)
(***************************************************************************)
\* resources/leads.py: LeadsResource
LeadsResource ==
    [ _module_name |-> <<"L", "e", "a", "d", "s">>,
      _list_endpoint |-> <<"g", "e", "t", "_", "l", "e", "a", "d", "_", "l", "i", "s", "t">>,
      _count_endpoint |-> <<"g", "e", "t", "_", "l", "e", "a", "d", "_", "l", "i", "s", "t", "_", "c", "o", "u", "n", "t">>,
      _get_endpoint |-> <<"g", "e", "t", "_", "l", "e", "a", "d">>,
      _edit_endpoint |-> <<"e", "d", "i", "t", "_", "l", "e", "a", "d">> ]
\* resources/products.py: ProductsResource
ProductsResource ==
    [ _module_name |-> <<"P", "r", "o", "d", "u", "c", "t", "s">>,
      _list_endpoint |-> <<"g", "e", "t", "_", "p", "r", "o", "d", "u", "c", "t", "_", "l", "i", "s", "t">>,
      _count_endpoint |-> <<"g", "e", "t", "_", "p", "r", "o", "d", "u", "c", "t", "_", "l", "i", "s", "t", "_", "c", "o", "u", "n", "t">>,
      _get_endpoint |-> <<"g", "e", "t", "_", "p", "r", "o", "d", "u", "c", "t">>,
      _edit_endpoint |-> <<"e", "d", "i", "t", "_", "p", "r", "o", "d", "u", "c", "t">> ]

\* resources/activities.py, companies.py, contacts.py, helpdesk.py,
\* opportunities.py, projects.py: the bindings of the other modules
OtherResources ==
    {
      [ _module_name |-> <<"A", "c", "t", "i", "v", "i", "t", "i", "e", "s">>,
        _list_endpoint |-> <<"g", "e", "t", "_", "a", "c", "t", "i", "v", "i", "t", "y", "_", "l", "i", "s", "t">>,
        _count_endpoint |-> <<"g", "e", "t", "_", "a", "c", "t", "i", "v", "i", "t", "y", "_", "l", "i", "s", "t", "_", "c", "o", "u", "n", "t">>,
        _get_endpoint |-> <<"g", "e", "t", "_", "a", "c", "t", "i", "v", "i", "t", "y">>,
        _edit_endpoint |-> <<"e", "d", "i", "t", "_", "a", "c", "t", "i", "v", "i", "t", "y">> ],
      [ _module_name |-> <<"C", "o", "m", "p", "a", "n", "i", "e", "s">>,
        _list_endpoint |-> <<"g", "e", "t", "_", "c", "o", "m", "p", "a", "n", "y", "_", "l", "i", "s", "t">>,
        _count_endpoint |-> <<"g", "e", "t", "_", "c", "o", "m", "p", "a", "n", "y", "_", "l", "i", "s", "t", "_", "c", "o", "u", "n", "t">>,
        _get_endpoint |-> <<"g", "e", "t", "_", "c", "o", "m", "p", "a", "n", "y">>,
        _edit_endpoint |-> <<"e", "d", "i", "t", "_", "c", "o", "m", "p", "a", "n", "y">> ],
      [ _module_name |-> <<"C", "o", "n", "t", "a", "c", "t", "s">>,
        _list_endpoint |-> <<"g", "e", "t", "_", "c", "o", "n", "t", "a", "c", "t", "_", "l", "i", "s", "t">>,
        _count_endpoint |-> <<"g", "e", "t", "_", "c", "o", "n", "t", "a", "c", "t", "_", "l", "i", "s", "t", "_", "c", "o", "u", "n", "t">>,
        _get_endpoint |-> <<"g", "e", "t", "_", "c", "o", "n", "t", "a", "c", "t">>,
        _edit_endpoint |-> <<"e", "d", "i", "t", "_", "c", "o", "n", "t", "a", "c", "t">> ],
      [ _module_name |-> <<"H", "e", "l", "p", "d", "e", "s", "k">>,
        _list_endpoint |-> <<"g", "e", "t", "_", "t", "i", "c", "k", "e", "t", "_", "l", "i", "s", "t">>,
        _count_endpoint |-> <<"g", "e", "t", "_", "t", "i", "c", "k", "e", "t", "_", "l", "i", "s", "t", "_", "c", "o", "u", "n", "t">>,
        _get_endpoint |-> <<"g", "e", "t", "_", "t", "i", "c", "k", "e", "t">>,
        _edit_endpoint |-> <<"e", "d", "i", "t", "_", "t", "i", "c", "k", "e", "t">> ],
      [ _module_name |-> <<"O", "p", "p", "o", "r", "t", "u", "n", "i", "t", "i", "e", "s">>,
        _list_endpoint |-> <<"g", "e", "t", "_", "o", "p", "p", "o", "r", "t", "u", "n", "i", "t", "y", "_", "l", "i", "s", "t">>,
        _count_endpoint |-> <<"g", "e", "t", "_", "o", "p", "p", "o", "r", "t", "u", "n", "i", "t", "y", "_", "l", "i", "s", "t", "_", "c", "o", "u", "n", "t">>,
        _get_endpoint |-> <<"g", "e", "t", "_", "o", "p", "p", "o", "r", "t", "u", "n", "i", "t", "y">>,
        _edit_endpoint |-> <<"e", "d", "i", "t", "_", "o", "p", "p", "o", "r", "t", "u", "n", "i", "t", "y">> ],
      [ _module_name |-> <<"P", "r", "o", "j", "e", "c", "t", "s">>,
        _list_endpoint |-> <<"g", "e", "t", "_", "p", "r", "o", "j", "e", "c", "t", "_", "l", "i", "s", "t">>,
        _count_endpoint |-> <<"g", "e", "t", "_", "p", "r", "o", "j", "e", "c", "t", "_", "l", "i", "s", "t", "_", "c", "o", "u", "n", "t">>,
        _get_endpoint |-> <<"g", "e", "t", "_", "p", "r", "o", "j", "e", "c", "t">>,
        _edit_endpoint |-> <<"e", "d", "i", "t", "_", "p", "r", "o", "j", "e", "c", "t">> ] }
\* the resource classes of the library
Resources == {LeadsResource, ProductsResource} \cup OtherResources
\* the four endpoint names a resource is bound to
EndpointsOf(self) ==
    {self._list_endpoint, self._count_endpoint, self._get_endpoint, self._edit_endpoint}

\* a method that posts its request a second time before it returns
Ending_posted_twice(sent, result) ==
    [sent EXCEPT !.result = result, !.calls = sent.calls \o sent.calls]

\* what a call of the transport has become once its result is `result`
Ending(sent, result) == [sent EXCEPT !.result = result]

\* a query string that chains the last condition of a builder to the first
BaseResource_query_str_chained(heap, query) ==
    IF query.t # "ref" THEN query
    ELSE IF heap[query.ref] = <<>> THEN VNull
    ELSE IF Len(heap[query.ref]) = 1 THEN VStr(heap[query.ref][1])
    ELSE VStr(heap[query.ref][1] \o <<"&">> \o heap[query.ref][Len(heap[query.ref])])

\* `query.build() if isinstance(query, QueryBuilder) else query`
BaseResource_query_str(heap, query) ==
    IF query.t = "ref" THEN QueryBuilder_build(heap, query.ref).ret ELSE query
\* the data of count and of list before the limits: query_string, keywords
BaseResource_filter_data(heap, query, keywords) ==
    [ k \in Keys |->
        IF k = kQueryString /\ Truthy(query) /\ Truthy(BaseResource_query_str(heap, query))
        THEN BaseResource_query_str(heap, query)
        ELSE IF k = kKeywords /\ Truthy(keywords) THEN keywords
        ELSE Absent ]

\* a normalisation that keeps sequences only
BaseResource_parse_lists_only(response) ==
    IF response.t = "list" THEN response ELSE VList(<<>>)

\* BaseResource._parse_list_response
BaseResource_parse_list_response(response) ==
    IF response.t = "list" THEN response
    ELSE IF response.t = "dict" THEN VList(<<response>>)
    ELSE VList(<<>>)

\* the end of count, given how the post ended; isinstance(result, int) holds
\* of a bool, which is an int in Python
BaseResource_count_result(posted) ==
    IF posted.kind = "raise" THEN posted
    ELSE IF posted.value.t \in {"int", "bool"} THEN Return(posted.value)
    ELSE IF posted.value.t = "str" /\ isdigit(posted.value.s) THEN int(posted.value)
    ELSE Return(VInt(0))
\* BaseResource.count
BaseResource_count(self, http, sessions, heap, query, keywords, outcome) ==
    LET sent == HTTPClient_post(http, sessions, self._count_endpoint,
                                VDict(BaseResource_filter_data(heap, query, keywords)),
                                VNull, outcome)
    IN Ending(sent, BaseResource_count_result(sent.result))

\* a list that answers an error of the transport with the empty list
BaseResource_list_result_or_empty(posted) ==
    IF posted.kind = "raise" THEN Return(VList(<<>>))
    ELSE Return(BaseResource_parse_list_response(posted.value))

\* the end of list, given how the post ended
BaseResource_list_result(posted) ==
    IF posted.kind = "raise" THEN posted
    ELSE Return(BaseResource_parse_list_response(posted.value))
\* the data of list
BaseResource_list_data(heap, query, keywords, limit_start, limit_end) ==
    [ k \in Keys |->
        IF k = kLimitStart /\ limit_start # VNull THEN limit_start
        ELSE IF k = kLimitEnd /\ limit_end # VNull THEN limit_end
        ELSE BaseResource_filter_data(heap, query, keywords)[k] ]
\* a list that posts to the count endpoint of its module
BaseResource_list_at_count(self, http, sessions, heap, query, keywords, limit_start, limit_end, outcome) ==
    LET sent == HTTPClient_post(http, sessions, self._count_endpoint,
                                VDict(BaseResource_list_data(heap, query, keywords,
                                                             limit_start, limit_end)),
                                VNull, outcome)
    IN [sent EXCEPT !.result = BaseResource_list_result(sent.result)]

\* BaseResource.list
BaseResource_list(self, http, sessions, heap, query, keywords, limit_start, limit_end, outcome) ==
    LET sent == HTTPClient_post(http, sessions, self._list_endpoint,
                                VDict(BaseResource_list_data(heap, query, keywords,
                                                             limit_start, limit_end)),
                                VNull, outcome)
    IN Ending(sent, BaseResource_list_result(sent.result))

\* a get that gives back whatever the post returned
BaseResource_get_result_as_is(posted) == posted

\* the end of get, given how the post ended
BaseResource_get_result(posted) ==
    IF posted.kind = "raise" THEN posted
    ELSE IF posted.value.t = "dict" THEN Return(posted.value)
    ELSE Return(VDict(EmptyDict(Keys)))
\* BaseResource.get
BaseResource_get(self, http, sessions, crmid, outcome) ==
    LET sent == HTTPClient_post(http, sessions, self._get_endpoint,
                                VDict(Put(EmptyDict(Keys), kCrmid, crmid)),
                                VNull, outcome)
    IN Ending(sent, BaseResource_get_result(sent.result))

\* `{"crmid": crmid, **fields}`
BaseResource_edit_data(crmid, fields) ==
    [k \in Keys |-> IF fields[k] # Absent THEN fields[k]
                    ELSE IF k = kCrmid THEN crmid
                    ELSE Absent]

\* the end of create, given how the post ended
BaseResource_create_result(posted) ==
    IF posted.kind = "raise" THEN posted
    ELSE IF posted.value.t \in {"int", "bool"} THEN Return(posted.value)
    ELSE IF posted.value.t = "str" /\ isdigit(posted.value.s) THEN int(posted.value)
    ELSE IF posted.value.t = "dict" /\ posted.value.d[kRecordId] # Absent
    THEN int(posted.value.d[kRecordId])
    ELSE Return(VInt(0))
\* BaseResource.create
BaseResource_create(self, http, sessions, fields, outcome) ==
    LET sent == HTTPClient_post(http, sessions, self._edit_endpoint,
                                VDict(BaseResource_edit_data(VInt(0), fields)),
                                VNull, outcome)
    IN Ending(sent, BaseResource_create_result(sent.result))

\* the end of update, given how the post ended
BaseResource_update_result(crmid, posted) ==
    IF posted.kind = "raise" THEN posted
    ELSE IF posted.value.t \in {"int", "bool"} THEN Return(posted.value)
    ELSE IF posted.value.t = "str" /\ isdigit(posted.value.s) THEN int(posted.value)
    ELSE Return(crmid)
\* BaseResource.update; a keyword crmid among the fields is a second value
\* for the parameter crmid, which Python refuses with TypeError at the call
BaseResource_update(self, http, sessions, crmid, fields, outcome) ==
    IF fields[kCrmid] # Absent
    THEN [ self |-> http, sessions |-> sessions, calls |-> <<>>,
           result |-> Raise(BuiltinError("TypeError")) ]
    ELSE LET sent == HTTPClient_post(http, sessions, self._edit_endpoint,
                                     VDict(BaseResource_edit_data(crmid, fields)),
                                     VNull, outcome)
         IN Ending(sent, BaseResource_update_result(crmid, sent.result))

(***************************************************************************)
(* BaseResource.iterate is a generator function.  Calling it runs none of   *)
(* its body and returns a generator object; each next() of the object runs  *)
(* the body to the next yield or to its end.  The object is a record of the *)
(* arguments, the locals offset and batch, the position pos of yield from   *)
(* in the batch (the number of its records handed over), and where the body *)
(* stands: "created" before its first statement, "suspended" at the yield,  *)
(* "done" after its end or an exception.                                    *)
(***************************************************************************)
StopIteration == BuiltinError("StopIteration")

\* BaseResource.iterate(query, keywords, batch_size): the generator object
BaseResource_iterate(self, query, keywords, batch_size) ==
    [ self |-> self, query |-> query, keywords |-> keywords,
      batch_size |-> batch_size, offset |-> 0, batch |-> <<>>, pos |-> 0,
      state |-> "created" ]

\* a generator that stops after a short batch without handing it over
BaseResource_iterate_drops_short(gen, offset, listed) ==
    IF listed.result.kind = "raise"
    THEN [ gen |-> [gen EXCEPT !.state = "done", !.offset = offset],
           self |-> listed.self, sessions |-> listed.sessions,
           calls |-> listed.calls, result |-> listed.result ]
    ELSE IF Len(listed.result.value.l) < gen.batch_size
    THEN [ gen |-> [gen EXCEPT !.state = "done", !.offset = offset,
                               !.batch = listed.result.value.l, !.pos = 0],
           self |-> listed.self, sessions |-> listed.sessions,
           calls |-> listed.calls, result |-> Raise(StopIteration) ]
    ELSE [ gen |-> [gen EXCEPT !.state = "suspended", !.offset = offset,
                               !.batch = listed.result.value.l, !.pos = 1],
           self |-> listed.self, sessions |-> listed.sessions,
           calls |-> listed.calls, result |-> Return(listed.result.value.l[1]) ]

\* the body from `batch = self.list(...)` on, given how list ended: its
\* exception leaves the generator; an empty batch breaks the loop; any other
\* batch is handed over from its first record
BaseResource_iterate_listed(gen, offset, listed) ==
    IF listed.result.kind = "raise"
    THEN [ gen |-> [gen EXCEPT !.state = "done", !.offset = offset],
           self |-> listed.self, sessions |-> listed.sessions,
           calls |-> listed.calls, result |-> listed.result ]
    ELSE IF listed.result.value.l = <<>>
    THEN [ gen |-> [gen EXCEPT !.state = "done", !.offset = offset,
                               !.batch = <<>>, !.pos = 0],
           self |-> listed.self, sessions |-> listed.sessions,
           calls |-> listed.calls, result |-> Raise(StopIteration) ]
    ELSE [ gen |-> [gen EXCEPT !.state = "suspended", !.offset = offset,
                               !.batch = listed.result.value.l, !.pos = 1],
           self |-> listed.self, sessions |-> listed.sessions,
           calls |-> listed.calls, result |-> Return(listed.result.value.l[1]) ]

\* a generator that goes on after a short batch, until a batch is empty
BaseResource_iterate_until_empty(gen) ==
    \/ gen.state = "created"
    \/ gen.state = "suspended" /\ gen.pos = Len(gen.batch)
\* a generator that fetches the next window while the last record of the
\* batch is still to be handed over
BaseResource_iterate_fetches_ahead(gen) ==
    \/ gen.state = "created"
    \/ /\ gen.state = "suspended"
       /\ gen.pos + 1 >= Len(gen.batch)
       /\ Len(gen.batch) >= gen.batch_size

\* whether the next() of a generator reaches self.list: at its start, and
\* when a full batch has been handed over entirely
BaseResource_iterate_fetches(gen) ==
    \/ gen.state = "created"
    \/ /\ gen.state = "suspended"
       /\ gen.pos = Len(gen.batch)
       /\ Len(gen.batch) >= gen.batch_size
\* the offset of that call: 0 at the start, offset += batch_size after
BaseResource_iterate_offset(gen) ==
    IF gen.state = "created" THEN 0 ELSE gen.offset + gen.batch_size

\* next(gen) where it reaches no list call: the next record of the batch,
\* or the end after a short batch, or the end that was reached before
BaseResource_iterate_resume(gen, http, sessions) ==
    IF gen.state = "suspended" /\ gen.pos < Len(gen.batch)
    THEN [ gen |-> [gen EXCEPT !.pos = gen.pos + 1],
           self |-> http, sessions |-> sessions, calls |-> <<>>,
           result |-> Return(gen.batch[gen.pos + 1]) ]
    ELSE [ gen |-> [gen EXCEPT !.state = "done"],
           self |-> http, sessions |-> sessions, calls |-> <<>>,
           result |-> Raise(StopIteration) ]

\* next(gen), the list call answered by `outcome` where there is one
BaseResource_iterate_next(gen, http, sessions, heap, outcome) ==
    IF BaseResource_iterate_fetches(gen)
    THEN BaseResource_iterate_listed(
             gen, BaseResource_iterate_offset(gen),
             BaseResource_list(gen.self, http, sessions, heap, gen.query,
                               gen.keywords,
                               VInt(BaseResource_iterate_offset(gen)),
                               VInt(BaseResource_iterate_offset(gen) + gen.batch_size),
                               outcome))
    ELSE BaseResource_iterate_resume(gen, http, sessions)

(***************************************************************************)
(* The state.                                                               *)
(***************************************************************************)
VARIABLES
    op,         \* the name of the operation performed last
    args,       \* the arguments it was called with
    replies,    \* what the network gave back to the HTTP calls it issued
    wire,       \* the HTTP calls it put on the wire, in order
    ended,      \* how it ended: Return(value) or Raise(exception)
    crm,        \* the OpenCRMClient, Absent while none is constructed
    transport,  \* its HTTPClient (crm._http)
    pool,       \* the httpx sessions created so far, in order of creation
    dicts,      \* the dict objects of a caller that applies a strategy itself
    builders,   \* the query builders created so far: the _conditions of each
    server,     \* the records the server holds and whether it honours a window
    gens,       \* the generators iterate has returned so far
    trace       \* of each generator: the list calls it made, the records it gave

\* the variables of an iteration
iteration == <<server, gens, trace>>
vars ==
    << op, args, replies, wire, ended, crm, transport, pool, dicts, builders,
       server, gens, trace >>

NoArgs == [none |-> TRUE]

Init ==
    /\ op = "none"
    /\ args = NoArgs
    /\ replies = <<>>
    /\ wire = <<>>
    /\ ended = Return(VNull)
    /\ crm = Absent
    /\ transport = Absent
    /\ pool = <<>>
    /\ dicts = <<>>
    /\ builders = <<>>
    /\ server = Absent
    /\ gens = <<>>
    /\ trace = <<>>

(***************************************************************************)
(* The inputs.                                                              *)
(***************************************************************************)
SystemNames == {<<>>, <<"a", "c", "m", "e">>}
ApiKeys == {<<>>, <<"K", "1">>}
PassKeys == {<<>>, <<"P", "1">>}
AuthMethods == {AuthKeys, AuthHeaders, AuthSession, <<"o", "a", "u", "t", "h">>}
\* the user agent and the timeout a caller configures
Configs ==
    { <<DEFAULT_USER_AGENT, DEFAULT_TIMEOUT>>,
      <<(<<"m", "y", "-", "a", "p", "p", "/", "2", ".", "0">>), 5>> }
NetworkFailure == RequestError(<<"t", "i", "m", "e", "d", " ", "o", "u", "t">>)

\* what the network may give back to a login
LoginStatuses == {199, 200, 299, 300, 401}
LoginOutcomes ==
    {Response(st, b) : st \in LoginStatuses, b \in PlainBodies} \cup {NetworkFailure}
\* a login that yields a key, one that is refused, one that cannot connect
FewLoginOutcomes ==
    { Response(200, <<"{", Quote, "a", "c", "c", "e", "s", "s", "k", "e", "y", Quote,
                      ":", Quote, "S", "1", Quote, "}">>),
      Response(401, <<"o", "k">>),
      NetworkFailure }

\* what the network may give back to an API request
ApiStatuses == {100, 200, 399, 400, 404, 429, 500}
ApiBodies ==
    { <<>>, <<" ">>, <<"4", "2">>, <<"o", "k">>, <<"n", "u", "l", "l">>,
      <<"{", Quote, "n", "a", "m", "e", Quote, ":", Quote, "x", Quote, "}">> }
ApiOutcomes ==
    {Response(st, b) : st \in ApiStatuses, b \in ApiBodies} \cup {NetworkFailure}
FewApiOutcomes ==
    {Response(200, <<"4", "2">>), Response(404, <<"o", "k">>), NetworkFailure}

Endpoints == {<<"g", "e", "t", "_", "l", "e", "a", "d">>}
\* the bodies a caller passes: None, and dicts with text, integer and None
\* values, some under the names the strategies use for the credentials
TypicalData == VDict(Put(Put(EmptyDict(Keys), kCrmid, VInt(120)), kName, VNull))
CallerData ==
    { VNull,
      VDict(EmptyDict(Keys)),
      TypicalData,
      VDict(Put(Put(Put(EmptyDict(Keys), kApikey, VStr(<<"x">>)), kPasskey, VInt(0)),
                kAccesskey, VStr(<<"y">>))) }
CallerParams == {VNull}
\* A request's body and the answer to it are independent inputs of request():
\* the body decides what is sent, the answer what is returned.  The requests
\* of the model vary each with the other held: every body with a few
\* answers, every answer with one body.
PostInputs ==
    {<<d, o>> : d \in CallerData, o \in FewApiOutcomes}
        \cup {<<TypicalData, o>> : o \in ApiOutcomes}
GetInputs == {<<VNull, o>> : o \in FewApiOutcomes}
FewPostInputs == {<<d, o>> : d \in {VNull, TypicalData}, o \in FewApiOutcomes}

(***************************************************************************)
(* The operations.                                                          *)
(***************************************************************************)
\* the state after the constructor has run as `done` says
Constructed(a, outcome, done) ==
    /\ op' = "OpenCRMClient"
    /\ args' = a
    /\ replies' = IF done.calls = <<>> THEN <<>> ELSE <<outcome>>
    /\ wire' = done.calls
    /\ ended' = done.result
    /\ crm' = done.facade
    /\ transport' = done.http
    /\ UNCHANGED <<pool, dicts, builders, iteration>>

\* OpenCRMClient(system_name, api_key, pass_key, auth_method, user_agent,
\* timeout), with the login answered by one of `outcomes`
Construct(outcomes) ==
    /\ op = "none"
    /\ \E system_name \in SystemNames, api_key \in ApiKeys, pass_key \in PassKeys,
          auth_method \in AuthMethods, config \in Configs, outcome \in outcomes :
          Constructed([ system_name |-> system_name, api_key |-> api_key,
                        pass_key |-> pass_key, auth_method |-> auth_method,
                        user_agent |-> config[1], timeout |-> config[2] ],
                      outcome,
                      OpenCRMClient(system_name, api_key, pass_key, auth_method,
                                    config[1], config[2], outcome))

\* the state after a transport operation has run as `done` says
Transported(name, a, given, done) ==
    /\ op' = name
    /\ args' = a
    /\ replies' = given
    /\ wire' = done.calls
    /\ ended' = done.result
    /\ transport' = done.self
    /\ pool' = done.sessions
    /\ UNCHANGED <<crm, dicts, builders, iteration>>

\* transport.get(endpoint, data, params), which calls transport.request,
\* with the body and the answer one of `inputs`
Get ==
    /\ crm # Absent
    /\ transport._client # 0 \/ Len(pool) < MaxSessions
    /\ \E endpoint \in Endpoints, params \in CallerParams, input \in GetInputs :
          Transported("get",
                      [endpoint |-> endpoint, data |-> input[1], params |-> params],
                      <<input[2]>>,
                      HTTPClient_get(transport, pool, endpoint, input[1], params, input[2]))

\* transport.post(endpoint, data, params), with the body and the answer one
\* of `inputs`
Send(inputs) ==
    /\ crm # Absent
    /\ transport._client # 0 \/ Len(pool) < MaxSessions
    /\ \E endpoint \in Endpoints, params \in CallerParams, input \in inputs :
          Transported("post",
                      [endpoint |-> endpoint, data |-> input[1], params |-> params],
                      <<input[2]>>,
                      HTTPClient_post(transport, pool, endpoint, input[1], params, input[2]))

Post == Send(PostInputs)

\* the state after an operation without arguments that returns None and
\* leaves the transport and its sessions as `done` says
Released(name, done) ==
    /\ op' = name
    /\ args' = NoArgs
    /\ replies' = <<>>
    /\ wire' = <<>>
    /\ ended' = Return(VNull)
    /\ transport' = done.self
    /\ pool' = done.sessions
    /\ UNCHANGED <<crm, dicts, builders, iteration>>

\* transport.close()
Close == crm # Absent /\ Released("HTTPClient.close", HTTPClient_close(transport, pool))
\* leaving `with transport:`
Exit == crm # Absent /\ Released("HTTPClient.__exit__", HTTPClient_exit(transport, pool))
\* crm.close(), which is self._http.close()
FacadeClose ==
    crm # Absent /\ Released("OpenCRMClient.close", OpenCRMClient_close(transport, pool))
\* leaving `with crm:`, which is self.close()
FacadeExit ==
    crm # Absent /\ Released("OpenCRMClient.__exit__", OpenCRMClient_exit(transport, pool))

Next ==
    \/ Construct(FewLoginOutcomes)
    \/ Get
    \/ Post
    \/ Close
    \/ Exit
    \/ FacadeClose
    \/ FacadeExit

\* the transport: construction, requests and release of the session
Spec == Init /\ [][Next]_vars

\* the construction and the login in full, followed by requests
PostAfterLogin == Send(FewPostInputs)
NextLogin ==
    \/ Construct(LoginOutcomes)
    \/ PostAfterLogin
SpecLogin == Init /\ [][NextLogin]_vars

(***************************************************************************)
(* A caller that applies the client's strategy to dicts of its own.         *)
(***************************************************************************)
\* the body dicts (of str to str) and the header dicts a caller builds
StrData ==
    { EmptyDict(Keys),
      Put(EmptyDict(Keys), kName, VStr(<<"x">>)),
      Put(Put(Put(EmptyDict(Keys), kApikey, VStr(<<"x">>)), kPasskey, VStr(<<"z">>)),
          kAccesskey, VStr(<<"y">>)) }
CallerHeaders ==
    { EmptyDict(HeaderNames),
      Put(Put(EmptyDict(HeaderNames), hUserAgent, VStr(<<"u", "a">>)),
          hKEY1, VStr(<<"x">>)) }

\* d = {...}
NewDict ==
    /\ Len(dicts) < MaxDicts
    /\ \E d \in StrData \cup CallerHeaders :
          /\ op' = "dict"
          /\ args' = NoArgs
          /\ ended' = Return(Ref(Len(dicts) + 1))
          /\ dicts' = Append(dicts, d)
    /\ UNCHANGED <<replies, wire, crm, transport, pool, builders, iteration>>

\* the state after a strategy was applied to the dict at r, which held
\* `before`, as `done` says
Applied(name, r, before, done) ==
    /\ op' = name
    /\ args' = [dict |-> r, before |-> before]
    /\ ended' = Return(Ref(done.ref))
    /\ dicts' = done.heap
    /\ UNCHANGED <<replies, wire, crm, transport, pool, builders, iteration>>

\* transport._auth.apply_to_request(d) for a body dict d of the caller
ApplyToRequest ==
    /\ crm # Absent
    /\ Len(dicts) < MaxDicts
    /\ \E r \in DOMAIN dicts :
          /\ DOMAIN dicts[r] = Keys
          /\ Applied("apply_to_request", r, dicts[r],
                     apply_to_request(transport._auth, dicts, r))

\* transport._auth.apply_to_headers(h) for a header dict h of the caller
ApplyToHeaders ==
    /\ crm # Absent
    /\ Len(dicts) < MaxDicts
    /\ \E r \in DOMAIN dicts :
          /\ DOMAIN dicts[r] = HeaderNames
          /\ Applied("apply_to_headers", r, dicts[r],
                     apply_to_headers(transport._auth, dicts, r))

ConstructForAuth == Construct(FewLoginOutcomes)
NextAuth ==
    \/ ConstructForAuth
    \/ NewDict
    \/ ApplyToRequest
    \/ ApplyToHeaders
SpecAuth == Init /\ [][NextAuth]_vars

(***************************************************************************)
(* A caller of the query builder.                                           *)
(***************************************************************************)
Fields == {<<"f">>}
Values == {<<"v">>, <<"a", "|", "b">>}
\* the operators a caller passes to where(): the five of Operator, and one
\* that is none of them (the annotation is not enforced at run time)
Operators ==
    { <<"=">>, <<"L", "I", "K", "E">>, <<"B", "E", "G", "I", "N", "S">>,
      <<"E", "N", "D", "S">>, <<"C", "O", "N", "T", "A", "I", "N", "S">>,
      <<"!", "=">> }

\* the conditions all builders hold together
RECURSIVE Held(_)
Held(heap) == IF heap = <<>> THEN 0 ELSE Len(Head(heap)) + Held(Tail(heap))

\* the state after a builder method was called as `done` says
Queried(name, a, done) ==
    /\ op' = name
    /\ args' = a
    /\ ended' = Return(done.ret)
    /\ builders' = done.heap
    /\ UNCHANGED <<replies, wire, crm, transport, pool, dicts, iteration>>

\* q = query()
NewQuery ==
    /\ Len(builders) < MaxBuilders
    /\ Queried("query", NoArgs, QueryBuilder(builders))

\* q.where(field, operator, value)
Where ==
    /\ Held(builders) < MaxConds
    /\ \E q \in DOMAIN builders, f \in Fields, o \in Operators, v \in Values :
          Queried("where", [self |-> q, field |-> f, operator |-> o, value |-> v],
                  QueryBuilder_where(builders, q, f, o, v))
\* q.equals(field, value)
Equals ==
    /\ Held(builders) < MaxConds
    /\ \E q \in DOMAIN builders, f \in Fields, v \in Values :
          Queried("equals", [self |-> q, field |-> f, value |-> v],
                  QueryBuilder_equals(builders, q, f, v))
\* q.like(field, value)
Like ==
    /\ Held(builders) < MaxConds
    /\ \E q \in DOMAIN builders, f \in Fields, v \in Values :
          Queried("like", [self |-> q, field |-> f, value |-> v],
                  QueryBuilder_like(builders, q, f, v))
\* q.begins_with(field, value)
BeginsWith ==
    /\ Held(builders) < MaxConds
    /\ \E q \in DOMAIN builders, f \in Fields, v \in Values :
          Queried("begins_with", [self |-> q, field |-> f, value |-> v],
                  QueryBuilder_begins_with(builders, q, f, v))
\* q.ends_with(field, value)
EndsWith ==
    /\ Held(builders) < MaxConds
    /\ \E q \in DOMAIN builders, f \in Fields, v \in Values :
          Queried("ends_with", [self |-> q, field |-> f, value |-> v],
                  QueryBuilder_ends_with(builders, q, f, v))
\* q.contains(field, value)
Contains ==
    /\ Held(builders) < MaxConds
    /\ \E q \in DOMAIN builders, f \in Fields, v \in Values :
          Queried("contains", [self |-> q, field |-> f, value |-> v],
                  QueryBuilder_contains(builders, q, f, v))
\* q.build()
Build ==
    \E q \in DOMAIN builders :
        Queried("build", [self |-> q], QueryBuilder_build(builders, q))
\* q.clear()
Clear ==
    \E q \in DOMAIN builders :
        Queried("clear", [self |-> q], QueryBuilder_clear(builders, q))

NextQuery ==
    \/ NewQuery
    \/ Where
    \/ Equals
    \/ Like
    \/ BeginsWith
    \/ EndsWith
    \/ Contains
    \/ Build
    \/ Clear
SpecQuery == Init /\ [][NextQuery]_vars

(***************************************************************************)
(* A caller of the resources of a client.                                   *)
(***************************************************************************)
Modules == {LeadsResource, ProductsResource}
\* the query and the keywords a caller filters with
Filters == {<<VNull, VNull>>, <<VStr(<<>>), VNull>>, <<VStr(<<"f", "|", "=", "|", "v">>), VStr(<<"k", "w">>)>>}
\* the limits a caller of list passes
Limits == {<<VNull, VNull>>, <<VInt(0), VInt(2)>>}
\* the ids a caller passes
Ids == {VInt(7)}
\* the keyword arguments a caller of create and update passes
CallerFields ==
    { EmptyDict(Keys),
      Put(Put(EmptyDict(Keys), kName, VStr(<<"x">>)), kKeywords, VNull),
      Put(Put(EmptyDict(Keys), kName, VStr(<<"x">>)), kCrmid, VInt(5)) }
\* what the network may give back to the request of a resource
ResourceOutcomes ==
    {Response(200, b) : b \in ResourceBodies}
        \cup {Response(404, <<"o", "k">>), Response(500, <<>>), NetworkFailure}
FewResourceOutcomes == {Response(200, <<"4", "2">>), Response(404, <<"o", "k">>)}
\* As for the transport, the arguments and the answer vary each with the
\* other held: every answer with the arguments `first` on the leads, every
\* module and every one of `inputs` with a few answers.  A case is the
\* resource, the arguments and the answer.
Cases(inputs, first) ==
    {<<m, i, o>> : m \in Modules, i \in inputs, o \in FewResourceOutcomes}
        \cup {<<LeadsResource, first, o>> : o \in ResourceOutcomes}

\* the state after a method of a resource has run as `done` says
Resourced(name, a, outcome, done) ==
    Transported(name, a, IF done.calls = <<>> THEN <<>> ELSE <<outcome>>, done)

\* crm.<module>.count(query, keywords)
Count ==
    /\ crm # Absent
    /\ transport._client # 0 \/ Len(pool) < MaxSessions
    /\ \E c \in Cases(Filters, <<VNull, VNull>>) :
          Resourced("BaseResource.count",
                    [self |-> c[1], query |-> c[2][1], keywords |-> c[2][2]],
                    c[3],
                    BaseResource_count(c[1], transport, pool, builders,
                                       c[2][1], c[2][2], c[3]))
\* crm.<module>.list(query, keywords, limit_start, limit_end)
List ==
    /\ crm # Absent
    /\ transport._client # 0 \/ Len(pool) < MaxSessions
    /\ \E c \in Cases(Filters \X Limits, <<(<<VNull, VNull>>), (<<VNull, VNull>>)>>) :
          Resourced("BaseResource.list",
                    [ self |-> c[1], query |-> c[2][1][1], keywords |-> c[2][1][2],
                      limit_start |-> c[2][2][1], limit_end |-> c[2][2][2] ],
                    c[3],
                    BaseResource_list(c[1], transport, pool, builders, c[2][1][1],
                                      c[2][1][2], c[2][2][1], c[2][2][2], c[3]))
\* crm.<module>.get(crmid)
GetRecord ==
    /\ crm # Absent
    /\ transport._client # 0 \/ Len(pool) < MaxSessions
    /\ \E c \in Cases(Ids, VInt(7)) :
          Resourced("BaseResource.get", [self |-> c[1], crmid |-> c[2]], c[3],
                    BaseResource_get(c[1], transport, pool, c[2], c[3]))
\* crm.<module>.create(**fields)
Create ==
    /\ crm # Absent
    /\ transport._client # 0 \/ Len(pool) < MaxSessions
    /\ \E c \in Cases(CallerFields, EmptyDict(Keys)) :
          Resourced("BaseResource.create", [self |-> c[1], fields |-> c[2]], c[3],
                    BaseResource_create(c[1], transport, pool, c[2], c[3]))
\* crm.<module>.update(crmid, **fields)
Update ==
    /\ crm # Absent
    /\ transport._client # 0 \/ Len(pool) < MaxSessions
    /\ \E crmid \in Ids, c \in Cases(CallerFields, EmptyDict(Keys)) :
          Resourced("BaseResource.update",
                    [self |-> c[1], crmid |-> crmid, fields |-> c[2]], c[3],
                    BaseResource_update(c[1], transport, pool, crmid, c[2], c[3]))

NextResource ==
    \/ Construct(FewLoginOutcomes)
    \/ Count
    \/ List
    \/ GetRecord
    \/ Create
    \/ Update
SpecResource == Init /\ [][NextResource]_vars

(***************************************************************************)
(* A caller of iterate, and the server its list calls reach.                *)
(***************************************************************************)
Least(a, b) == IF a < b THEN a ELSE b
\* the servers: one that holds n records and honours the window of a list
\* request, and one that answers a list request as it likes
Servers ==
    {[records |-> n, honours |-> TRUE] : n \in 0..MaxRecords}
        \cup {[records |-> MaxRecords, honours |-> FALSE]}
\* what a server that does not honour the window may answer: records from
\* the first on, fewer or more than asked for, one object, a text, an
\* error status, no answer
AnyAnswers ==
    {Response(200, ListText(0, k)) : k \in 0..Least(MaxBatch + 1, MaxRecords)}
        \cup { Response(200, <<"{", Quote, "n", "a", "m", "e", Quote, ":", Quote, "x", Quote, "}">>),
               Response(200, <<"o", "k">>), Response(404, <<"o", "k">>),
               NetworkFailure }
\* the answers of the server `srv` to the list request `call`: the honouring
\* server reads limit_start and limit_end off the request and answers the
\* records its collection holds at the positions limit_start <= p < limit_end
Served(srv, call) ==
    IF srv.honours
    THEN { Response(200,
             ListText(Least(DigitsToInt(call.data.d[kLimitStart].s), srv.records),
                      Least(DigitsToInt(call.data.d[kLimitEnd].s), srv.records))) }
    ELSE AnyAnswers
\* the filters and the batch sizes a caller of iterate passes
IterateFilters == {<<VNull, VNull>>, <<VStr(<<"f", "|", "=", "|", "v">>), VStr(<<"k", "w">>)>>}
BatchSizes == 1..MaxBatch

\* a server comes to stand behind the API
Serve ==
    /\ server = Absent
    /\ server' \in Servers
    /\ UNCHANGED <<op, args, replies, wire, ended, crm, transport, pool, dicts,
                   builders, gens, trace>>

\* crm.<module>.iterate(query, keywords, batch_size): a generator object
\* is returned, nothing of the body runs
Iterate ==
    /\ crm # Absent
    /\ server # Absent
    /\ Len(gens) < MaxGens
    /\ \E self \in Modules, f \in IterateFilters, batch_size \in BatchSizes :
          /\ op' = "BaseResource.iterate"
          /\ args' = [ self |-> self, query |-> f[1], keywords |-> f[2],
                       batch_size |-> batch_size ]
          /\ gens' = Append(gens, BaseResource_iterate(self, f[1], f[2], batch_size))
    /\ trace' = Append(trace, [calls |-> <<>>, given |-> <<>>])
    /\ replies' = <<>>
    /\ wire' = <<>>
    /\ ended' = Return(Ref(Len(gens) + 1))
    /\ UNCHANGED <<crm, transport, pool, dicts, builders, server>>

\* what is on record of a generator after a next() that ran as `done` says:
\* of a list call its limits as sent, the number of records it returned
\* (-1 where it raised) and the number of records handed over before it;
\* and the record handed over, where one was
Traced(t, done) ==
    [ calls |->
        IF done.calls = <<>> THEN t.calls
        ELSE Append(t.calls,
                    [ limit_start |-> done.calls[1].data.d[kLimitStart],
                      limit_end |-> done.calls[1].data.d[kLimitEnd],
                      got |-> IF done.result.kind = "raise" /\ done.result.exc # StopIteration
                              THEN 0 - 1 ELSE Len(done.gen.batch),
                      handed |-> Len(t.given) ]),
      given |->
        IF done.result.kind = "return" THEN Append(t.given, done.result.value)
        ELSE t.given ]
\* a next() that keeps the offset in the resource: every generator of the
\* same resource takes the offset of the one pulled from
Pulled_offset_in_resource(g, outcome, done) ==
    /\ op' = "next"
    /\ args' = [gen |-> g]
    /\ replies' = IF done.calls = <<>> THEN <<>> ELSE <<outcome>>
    /\ wire' = done.calls
    /\ ended' = done.result
    /\ transport' = done.self
    /\ pool' = done.sessions
    /\ gens' = [ h \in 1..Len(gens) |->
                   IF h = g THEN done.gen
                   ELSE IF gens[h].self = done.gen.self
                   THEN [gens[h] EXCEPT !.offset = done.gen.offset]
                   ELSE gens[h] ]
    /\ trace' = [trace EXCEPT ![g] = Traced(trace[g], done)]
    /\ UNCHANGED <<crm, dicts, builders, server>>
\* the state after next() of the generator g has run as `done` says
Pulled(g, outcome, done) ==
    /\ op' = "next"
    /\ args' = [gen |-> g]
    /\ replies' = IF done.calls = <<>> THEN <<>> ELSE <<outcome>>
    /\ wire' = done.calls
    /\ ended' = done.result
    /\ transport' = done.self
    /\ pool' = done.sessions
    /\ gens' = [gens EXCEPT ![g] = done.gen]
    /\ trace' = [trace EXCEPT ![g] = Traced(trace[g], done)]
    /\ UNCHANGED <<crm, dicts, builders, server>>
\* next(gen) of a generator iterate returned: where the body reaches a list
\* call, the server answers the request it reads
Pull ==
    /\ crm # Absent
    /\ transport._client # 0 \/ Len(pool) < MaxSessions
    /\ \E g \in 1..Len(gens) :
          LET asked == BaseResource_iterate_next(gens[g], transport, pool,
                                                 builders, NetworkFailure).calls
          IN IF asked = <<>>
             THEN Pulled(g, NetworkFailure,
                         BaseResource_iterate_next(gens[g], transport, pool,
                                                   builders, NetworkFailure))
             ELSE /\ server.honours \/ Len(trace[g].calls) < MaxFetches
                  /\ \E outcome \in Served(server, asked[1]) :
                        Pulled(g, outcome,
                               BaseResource_iterate_next(gens[g], transport, pool,
                                                         builders, outcome))

NextIterate ==
    \/ Construct(FewLoginOutcomes)
    \/ Serve
    \/ Iterate
    \/ Pull
SpecIterate == Init /\ [][NextIterate]_vars

\* a server that honours the window comes to stand behind the API
ServeHonouring ==
    /\ server = Absent
    /\ server' \in {srv \in Servers : srv.honours}
    /\ UNCHANGED <<op, args, replies, wire, ended, crm, transport, pool, dicts,
                   builders, gens, trace>>
\* crm.leads.iterate(batch_size=...), called again on the same resource
\* while the generators it returned before may be anywhere in their sequence
IterateLeads ==
    /\ crm # Absent
    /\ server # Absent
    /\ Len(gens) < MaxGens + 1
    /\ \E batch_size \in BatchSizes :
          /\ op' = "BaseResource.iterate"
          /\ args' = [ self |-> LeadsResource, query |-> VNull, keywords |-> VNull,
                       batch_size |-> batch_size ]
          /\ gens' = Append(gens, BaseResource_iterate(LeadsResource, VNull, VNull,
                                                       batch_size))
    /\ trace' = Append(trace, [calls |-> <<>>, given |-> <<>>])
    /\ replies' = <<>>
    /\ wire' = <<>>
    /\ ended' = Return(Ref(Len(gens) + 1))
    /\ UNCHANGED <<crm, transport, pool, dicts, builders, server>>

NextIterators ==
    \/ Construct(FewLoginOutcomes)
    \/ ServeHonouring
    \/ IterateLeads
    \/ Pull
SpecIterators == Init /\ [][NextIterators]_vars

(***************************************************************************)
(* A caller that filters with query builders.                               *)
(***************************************************************************)
\* the queries such a caller passes: none, the empty string, a builder
BuiltQueries == {VNull, VStr(<<>>)} \cup {Ref(q) : q \in DOMAIN builders}

\* crm.leads.count(query)
CountBy ==
    /\ crm # Absent
    /\ transport._client # 0 \/ Len(pool) < MaxSessions
    /\ \E query \in BuiltQueries, outcome \in FewResourceOutcomes :
          Resourced("BaseResource.count",
                    [self |-> LeadsResource, query |-> query, keywords |-> VNull],
                    outcome,
                    BaseResource_count(LeadsResource, transport, pool, builders,
                                       query, VNull, outcome))
\* crm.leads.list(query)
ListBy ==
    /\ crm # Absent
    /\ transport._client # 0 \/ Len(pool) < MaxSessions
    /\ \E query \in BuiltQueries, outcome \in FewResourceOutcomes :
          Resourced("BaseResource.list",
                    [ self |-> LeadsResource, query |-> query, keywords |-> VNull,
                      limit_start |-> VNull, limit_end |-> VNull ],
                    outcome,
                    BaseResource_list(LeadsResource, transport, pool, builders,
                                      query, VNull, VNull, VNull, outcome))
\* crm.leads.iterate(query, batch_size=...)
IterateBy ==
    /\ crm # Absent
    /\ server # Absent
    /\ Len(gens) < MaxGens
    /\ \E query \in BuiltQueries \ {VNull}, batch_size \in BatchSizes :
          /\ op' = "BaseResource.iterate"
          /\ args' = [ self |-> LeadsResource, query |-> query, keywords |-> VNull,
                       batch_size |-> batch_size ]
          /\ gens' = Append(gens, BaseResource_iterate(LeadsResource, query, VNull,
                                                       batch_size))
    /\ trace' = Append(trace, [calls |-> <<>>, given |-> <<>>])
    /\ replies' = <<>>
    /\ wire' = <<>>
    /\ ended' = Return(Ref(Len(gens) + 1))
    /\ UNCHANGED <<crm, transport, pool, dicts, builders, server>>

\* the client is constructed first; a builder is made, filled and cleared
\* while the resource is called with it and, with a server behind the API,
\* iterated with it
NextFilter ==
    \/ Construct(FewLoginOutcomes)
    \/ crm # Absent /\ Len(builders) < FilterBuilders /\ NewQuery
    \/ crm # Absent /\ Equals
    \/ crm # Absent /\ Clear
    \/ server = Absent /\ CountBy
    \/ server = Absent /\ ListBy
    \/ ServeHonouring
    \/ IterateBy
    \/ Pull
SpecFilter == Init /\ [][NextFilter]_vars

\* A caller of every public method of a resource: it calls count, list, get,
\* create and update in any order and with any answer, and then, with a
\* server behind the API, iterates.
NextCalls ==
    \/ Construct(FewLoginOutcomes)
    \/ server = Absent /\ Count
    \/ server = Absent /\ List
    \/ server = Absent /\ GetRecord
    \/ server = Absent /\ Create
    \/ server = Absent /\ Update
    \/ Serve
    \/ Iterate
    \/ Pull
SpecCalls == Init /\ [][NextCalls]_vars

(***************************************************************************)
(* The properties.                                                          *)
(***************************************************************************)
\* the last operation was a request of the transport
Requested == op \in {"get", "post"}
\* the last operation was a request the network answered with a response
Answered == Requested /\ replies[1].kind = "response"
\* the arguments of a constructor call that no configuration allows
Misconfigured(a) ==
    \/ a.system_name = <<>>
    \/ a.api_key = <<>>
    \/ a.pass_key = <<>>
    \/ a.auth_method \notin {AuthKeys, AuthHeaders, AuthSession}

\* C1: constructing the facade with an empty system name, an empty api key,
\* an empty pass key or an auth mode other than keys/headers/session fails
\* with a configuration error, and no network call (no login) was issued.
C1_ConfigurationErrorBeforeNetwork ==
    (op = "OpenCRMClient" /\ Misconfigured(args)) =>
        /\ ended.kind = "raise"
        /\ IsInstance(ended.exc, "ConfigurationError")
        /\ wire = <<>>
        /\ crm = Absent
\* a session-mode constructor without a system name has failed
C1_Witness ==
    /\ op = "OpenCRMClient"
    /\ args.system_name = <<>>
    /\ args.api_key # <<>> /\ args.pass_key # <<>>
    /\ args.auth_method = AuthSession
    /\ ended.kind = "raise"
    /\ ended.exc.cls = "ConfigurationError"
    /\ wire = <<>>

\* the class of the error the transport raises for a status of 400 or more
ErrorFor(status) ==
    CASE status = 404 -> "NotFoundError"
      [] status = 429 -> "RateLimitError"
      [] OTHER -> "APIError"

\* C2: for every response received by the transport, status 404 raises the
\* not-found error, 429 the rate-limit error and every other status >= 400
\* the generic API error; the error carries the response's status code and
\* its raw body, and no value is returned.
C2_ErrorStatusRaises ==
    (Answered /\ replies[1].status_code >= 400) =>
        /\ ended.kind = "raise"
        /\ ended.value = Absent
        /\ ended.exc.cls = ErrorFor(replies[1].status_code)
        /\ ended.exc.status_code = VInt(replies[1].status_code)
        /\ ended.exc.response_body = VStr(replies[1].text)
\* a request answered 429 has raised the rate-limit error
C2_Witness ==
    /\ op = "post"
    /\ replies = <<Response(429, <<"o", "k">>)>>
    /\ ended.kind = "raise"
    /\ ended.exc.cls = "RateLimitError"
    /\ ended.exc.status_code = VInt(429)
    /\ ended.exc.response_body = VStr(<<"o", "k">>)

\* C3: for every response with a status below 400 (1xx and 3xx included) the
\* transport does not raise: it returns null when the body is empty, the
\* decoded JSON value when the body decodes as JSON, the raw text otherwise.
C3_BelowFourHundredReturns ==
    (Answered /\ replies[1].status_code < 400) =>
        /\ ended.kind = "return"
        /\ ended.value =
             IF replies[1].text = <<>> THEN VNull
             ELSE IF JsonDecode(replies[1].text) # JsonError
                  THEN JsonDecode(replies[1].text)
                  ELSE VStr(replies[1].text)
\* a request answered 399 with a JSON object has returned the decoded dict
C3_Witness ==
    /\ op = "post"
    /\ replies[1].kind = "response"
    /\ replies[1].status_code = 399
    /\ replies[1].text = <<"{", Quote, "n", "a", "m", "e", Quote, ":", Quote, "x", Quote, "}">>
    /\ ended = Return(VDict(Put(EmptyDict(Keys), kName, VStr(<<"x">>))))

\* C4: a network failure while sending a request is raised by the transport
\* as the connection error, which is none of the HTTP-status errors; the
\* response is not classified (the error has no status and no body) and no
\* value is returned.
C4_NetworkFailureRaisesConnectionError ==
    (Requested /\ replies[1].kind = "RequestError") =>
        /\ ended.kind = "raise"
        /\ ended.value = Absent
        /\ ended.exc.cls = "ConnectionError"
        /\ \A c \in {"NotFoundError", "RateLimitError", "APIError"} :
              ~IsInstance(ended.exc, c)
        /\ ended.exc.status_code = Absent
        /\ ended.exc.response_body = Absent
\* a get that could not reach the server has raised the connection error
C4_Witness ==
    /\ op = "get"
    /\ replies = <<NetworkFailure>>
    /\ ended.kind = "raise"
    /\ ended.exc.cls = "ConnectionError"
    /\ Len(wire) = 1

\* the last operation was one that releases the transport's session
ReleaseOps ==
    {"HTTPClient.close", "HTTPClient.__exit__", "OpenCRMClient.close",
     "OpenCRMClient.__exit__"}

\* one step of the life of the transport's session
C5_Step ==
    /\ (op' = "OpenCRMClient" /\ crm' # Absent) =>
          /\ transport'._client = 0
          /\ pool' = pool
    /\ op' \in {"get", "post"} =>
          /\ IF transport._client = 0
             THEN /\ Len(pool') = Len(pool) + 1
                  /\ SubSeq(pool', 1, Len(pool)) = pool
                  /\ transport'._client = Len(pool')
                  /\ ~pool'[Len(pool')].is_closed
             ELSE /\ pool' = pool
                  /\ transport'._client = transport._client
          /\ wire'[1].via = transport'._client
    /\ op' \in ReleaseOps =>
          /\ ended' = Return(VNull)
          /\ transport'._client = 0
          /\ IF transport._client = 0
             THEN pool' = pool
             ELSE pool' = [pool EXCEPT ![transport._client].is_closed = TRUE]

\* C5: the transport creates no session at construction; the first request
\* creates the session and every later request reuses it; close() and
\* leaving a with-block release it; close() on a transport without a session
\* (closed before, or never used) changes nothing and raises nothing.
C5_SessionLifecycle == [][C5_Step]_vars
\* a second session was created by a request after the first was released
C5_Witness ==
    /\ op = "post"
    /\ Len(pool) = 2
    /\ pool[1].is_closed
    /\ ~pool[2].is_closed
    /\ transport._client = 2
    /\ wire[1].via = 2

\* the body of an HTTP call as a dict: no body is the empty dict
WireBody(call) == IF call.data = VNull THEN EmptyDict(Keys) ELSE call.data.d
\* the caller's body field k as the transport sends it when no credential
\* takes its place: the text of its value, nothing for None
Carried(data, k) ==
    IF data.t = "dict" /\ data.d[k] \notin {Absent, VNull}
    THEN VStr(str(data.d[k]))
    ELSE Absent
\* the body fields a strategy owns
CredentialFields(auth) ==
    CASE auth.cls = "APIKeyAuth" -> {kApikey, kPasskey}
      [] auth.cls = "HeaderAuth" -> {}
      [] auth.cls = "SessionAuth" -> {kAccesskey}

\* C6: on every outgoing request the credential fields equal the configured
\* credentials whatever keys the caller's data holds: body-key mode sends
\* body fields apikey and passkey and no KEY header, header-key mode sends
\* headers KEY1 and KEY2 and adds no body field, session mode sends body
\* field accesskey and no KEY header; the caller's other body fields and the
\* fixed headers are carried through.
C6_CredentialsOnTheWire ==
    /\ (op = "OpenCRMClient" /\ crm # Absent /\ args.auth_method # AuthSession) =>
          /\ transport._auth.api_key = VStr(args.api_key)
          /\ transport._auth.pass_key = VStr(args.pass_key)
    /\ Requested =>
          /\ transport._auth.cls = "APIKeyAuth" =>
                /\ WireBody(wire[1])[kApikey] = transport._auth.api_key
                /\ WireBody(wire[1])[kPasskey] = transport._auth.pass_key
                /\ wire[1].headers[hKEY1] = Absent
                /\ wire[1].headers[hKEY2] = Absent
          /\ transport._auth.cls = "HeaderAuth" =>
                /\ wire[1].headers[hKEY1] = transport._auth.api_key
                /\ wire[1].headers[hKEY2] = transport._auth.pass_key
          /\ transport._auth.cls = "SessionAuth" =>
                /\ WireBody(wire[1])[kAccesskey] = transport._auth.access_key
                /\ wire[1].headers[hKEY1] = Absent
                /\ wire[1].headers[hKEY2] = Absent
          /\ \A k \in Keys \ CredentialFields(transport._auth) :
                WireBody(wire[1])[k] = Carried(args.data, k)
          /\ wire[1].headers[hUserAgent] = VStr(crm._user_agent)
          /\ wire[1].headers[hContentType] = VStr(MultipartFormData)
\* a body-key request whose caller passed apikey, passkey and accesskey of
\* its own went out with the configured apikey and passkey
C6_Witness ==
    /\ op = "post"
    /\ transport._auth.cls = "APIKeyAuth"
    /\ args.data.t = "dict"
    /\ args.data.d[kApikey] = VStr(<<"x">>)
    /\ WireBody(wire[1])[kApikey] = VStr(<<"K", "1">>)
    /\ WireBody(wire[1])[kPasskey] = VStr(<<"P", "1">>)
    /\ WireBody(wire[1])[kAccesskey] = VStr(<<"y">>)

\* the last operation applied the strategy to a dict of the caller
Applying == op \in {"apply_to_request", "apply_to_headers"}
\* the keys the strategy fills in the dict it returns, and what it fills in
Filled(auth, name) ==
    IF name = "apply_to_request"
    THEN CASE auth.cls = "APIKeyAuth" -> {<<kApikey, auth.api_key>>, <<kPasskey, auth.pass_key>>}
           [] auth.cls = "HeaderAuth" -> {}
           [] auth.cls = "SessionAuth" -> {<<kAccesskey, auth.access_key>>}
    ELSE CASE auth.cls = "APIKeyAuth" -> {}
           [] auth.cls = "HeaderAuth" -> {<<hKEY1, auth.api_key>>, <<hKEY2, auth.pass_key>>}
           [] auth.cls = "SessionAuth" -> {}

\* C7: applying any of the three strategies to a body mapping or a header
\* mapping leaves the mapping passed in as it was (the same keys and
\* values); the credentials are in the mapping returned, which holds the
\* caller's other entries.
C7_InputMappingUnchanged ==
    Applying =>
        /\ dicts[args.dict] = args.before
        /\ \A f \in Filled(transport._auth, op) :
              /\ dicts[ended.value.ref][f[1]] = f[2]
              /\ ended.value.ref # args.dict
        /\ \A k \in DOMAIN args.before :
              (\A f \in Filled(transport._auth, op) : f[1] # k) =>
                  dicts[ended.value.ref][k] = args.before[k]
\* the session strategy was applied to a body that held an accesskey of the
\* caller: the caller's dict still holds it, the dict returned is another
\* and holds the session's
C7_Witness ==
    /\ op = "apply_to_request"
    /\ transport._auth.cls = "SessionAuth"
    /\ args.before[kAccesskey] = VStr(<<"y">>)
    /\ dicts[args.dict][kAccesskey] = VStr(<<"y">>)
    /\ ended.value.ref # args.dict
    /\ dicts[ended.value.ref][kAccesskey] = VStr(<<"S", "1">>)

\* the constructor was called in session mode with a configuration that
\* passes, so that it logged in
LoggedIn ==
    /\ op = "OpenCRMClient"
    /\ ~Misconfigured(args)
    /\ args.auth_method = AuthSession
\* a value of the field accesskey that counts as a key
NonEmpty(v) == v \notin {Absent, VNull, VStr(<<>>)}
\* the key a login response yields: its JSON field accesskey when the body
\* is a JSON object that holds a non-empty one, its trimmed text otherwise
KeyIn(response) ==
    IF /\ JsonDecode(response.text) # JsonError
       /\ JsonDecode(response.text).t = "dict"
       /\ NonEmpty(JsonDecode(response.text).d[kAccesskey])
    THEN JsonDecode(response.text).d[kAccesskey]
    ELSE VStr(Strip(response.text))
\* the login was answered with a success status and a key
Granted ==
    /\ LoggedIn
    /\ replies[1].kind = "response"
    /\ replies[1].status_code \in 200..299
    /\ KeyIn(replies[1]) # VStr(<<>>)

\* the key of a login is the one the claim says
C8_KeyOfLogin ==
    Granted =>
        /\ ended = Return(VNull)
        /\ crm # Absent
        /\ transport._auth = SessionAuth(KeyIn(replies[1]))
\* the key is kept, and a request sends it as accesskey
C8_KeySent ==
    (crm # Absent /\ transport._auth.cls = "SessionAuth") =>
        /\ transport'._auth = transport._auth
        /\ op' \in {"get", "post"} =>
              WireBody(wire'[1])[kAccesskey] = transport._auth.access_key

\* C8: a session login answered with a success status yields as access key
\* the JSON field accesskey when the body is JSON with a non-empty
\* accesskey, and otherwise the raw body with the surrounding whitespace
\* trimmed; that key is sent as accesskey on every later request.
C8_LoginKey == []C8_KeyOfLogin /\ [][C8_KeySent]_vars
\* a login answered with the text " T9\n" was followed by a request that
\* sent accesskey T9
C8_Witness ==
    /\ op = "post"
    /\ transport._auth = SessionAuth(VStr(<<"T", "9">>))
    /\ WireBody(wire[1])[kAccesskey] = VStr(<<"T", "9">>)
    /\ ended.kind = "return"

\* the login of the constructor failed: a network error, a status outside
\* 2xx, or a success status that yields an empty key
LoginFailed ==
    /\ LoggedIn
    /\ \/ replies[1].kind = "RequestError"
       \/ replies[1].status_code \notin 200..299
       \/ KeyIn(replies[1]) = VStr(<<>>)
\* the constructor raised an authentication error, built no client and put
\* nothing but the login on the wire
FailedWithoutClient ==
    /\ ended.kind = "raise"
    /\ ended.exc.cls = "AuthenticationError"
    /\ crm = Absent
    /\ transport = Absent
    /\ Len(wire) = 1
    /\ wire[1].via = 0
    /\ wire[1].url = <<"h", "t", "t", "p", "s", ":", "/", "/">> \o args.system_name
                       \o <<".", "o", "p", "e", "n", "c", "r", "m", ".", "c", "o", ".",
                            "u", "k", "/", "a", "p", "i", "/", "r", "e", "s", "t", "/",
                            "l", "o", "g", "i", "n">>

\* C9 as the claim states it: in each of the three failure cases the
\* authentication error carries the raw response.
C9_AsClaimed ==
    /\ Requested => crm # Absent
    /\ LoginFailed =>
          /\ FailedWithoutClient
          /\ ended.exc.details.d[kResponse] = VStr(replies[1].text)

\* C9: a session login fails with an authentication error in each of the
\* three cases (a non-2xx status, a network error during the login call, a
\* success status that yields an empty key); the error carries the raw
\* response when there is one (the first and the third case) and no
\* response after a network error, whose text is in the message; no client
\* is produced and no API request is sent.
C9_LoginFailure ==
    /\ Requested => crm # Absent
    /\ LoginFailed =>
          /\ FailedWithoutClient
          /\ IF replies[1].kind = "response"
             THEN ended.exc.details.d[kResponse] = VStr(replies[1].text)
             ELSE /\ ended.exc.details.d[kResponse] = Absent
                  /\ \E i \in 0..Len(ended.exc.message) :
                        SubSeq(ended.exc.message, i + 1, Len(ended.exc.message))
                            = replies[1].text
\* a login that could not connect has failed with an authentication error
\* that carries no response and names the failure in its message
C9_Witness ==
    /\ LoginFailed
    /\ replies = <<NetworkFailure>>
    /\ ended.kind = "raise"
    /\ ended.exc.cls = "AuthenticationError"
    /\ ended.exc.details = VDict(EmptyDict(DetailKeys))
    /\ ended.exc.message =
          <<"L", "o", "g", "i", "n", " ", "r", "e", "q", "u", "e", "s", "t", " ",
            "f", "a", "i", "l", "e", "d", ":", " ">> \o NetworkFailure.text
    /\ crm = Absent

\* the condition a builder method called with (field, value) adds
Condition(field, operator, value) == field \o <<"|">> \o operator \o <<"|">> \o value
\* the operator of each builder method
OperatorOf(name) ==
    CASE name = "equals" -> <<"=">>
      [] name = "like" -> <<"L", "I", "K", "E">>
      [] name = "begins_with" -> <<"B", "E", "G", "I", "N", "S">>
      [] name = "ends_with" -> <<"E", "N", "D", "S">>
      [] name = "contains" -> <<"C", "O", "N", "T", "A", "I", "N", "S">>
\* one call of a builder method that adds a condition
C10_Step ==
    op' \in {"where", "equals", "like", "begins_with", "ends_with", "contains"} =>
        /\ ended' = Return(Ref(args'.self))
        /\ builders[args'.self] = <<>> =>
              QueryBuilder_build(builders', args'.self).ret =
                  VStr(Condition(args'.field,
                                 IF op' = "where" THEN args'.operator ELSE OperatorOf(op'),
                                 args'.value))

\* C10: on a fresh builder each of equals, like, begins_with, ends_with and
\* contains called with (f, v) makes build() return f|OP|v with OP =, LIKE,
\* BEGINS, ENDS, CONTAINS respectively, and where(f, op, v) makes it return
\* f|op|v; each of these calls returns the builder it was called on.
C10_BuilderConditions == [][C10_Step]_vars
\* the second of two builders, fresh, was asked begins_with(f, v): it was
\* returned and holds f|BEGINS|v, the first holds nothing
C10_Witness ==
    /\ op = "begins_with"
    /\ Len(builders) = 2
    /\ args.self = 2
    /\ ended = Return(Ref(2))
    /\ builders[1] = <<>>
    /\ builders[2] = << <<"f", "|", "B", "E", "G", "I", "N", "S", "|", "v">> >>

\* the builder methods that add a condition
Adders == {"where", "equals", "like", "begins_with", "ends_with", "contains"}
\* one call on a builder: a condition-adding call puts its condition after
\* those the builder holds, clear() leaves it none, and build() leaves the
\* builder as it is and returns the first it holds, or null
C11_Step ==
    /\ op' \in Adders =>
          builders'[args'.self] =
              Append(builders[args'.self],
                     Condition(args'.field,
                               IF op' = "where" THEN args'.operator ELSE OperatorOf(op'),
                               args'.value))
    /\ op' = "clear" => builders'[args'.self] = <<>>
    /\ op' = "build" =>
          /\ builders' = builders
          /\ ended' = IF builders[args'.self] = <<>> THEN Return(VNull)
                      ELSE Return(VStr(builders[args'.self][1]))
    /\ op' \in Adders \cup {"clear", "build"} =>
          \A q \in DOMAIN builders : q # args'.self => builders'[q] = builders[q]

\* C11: after any sequence of condition-adding calls, clear() calls and
\* build() calls on one builder, build() returns null if no condition was
\* added since construction or since the last clear(), and otherwise the
\* first condition added since then, however many were added after it;
\* build() does not change what a later build() returns.
C11_BuildReturnsFirst == [][C11_Step]_vars
\* build() on a builder that holds two different conditions has returned
\* the first
C11_Witness ==
    /\ op = "build"
    /\ Len(builders[args.self]) = 2
    /\ builders[args.self][1] # builders[args.self][2]
    /\ ended = Return(VStr(builders[args.self][1]))

\* the last operation was the method `name` of a resource, it posted its
\* request, and the transport returned a result
Succeeded(name) ==
    /\ op = name
    /\ replies # <<>>
    /\ replies[1].kind = "response"
    /\ HTTPClient_handle_response(replies[1]).kind = "return"
\* the result the transport returned to the last operation
TransportResult == HTTPClient_handle_response(replies[1]).value
\* an integer result (in Python a bool is one)
IsInteger(v) == v.t \in {"int", "bool"}
\* a string of the digits 0..9 only
IsDigitString(v) == v.t = "str" /\ IsDigit(v.s)
\* the URL of an endpoint of the client's system
UrlOf(endpoint) ==
    <<"h", "t", "t", "p", "s", ":", "/", "/">> \o crm._system_name
        \o <<".", "o", "p", "e", "n", "c", "r", "m", ".", "c", "o", ".", "u", "k", "/", "a", "p", "i", "/", "r", "e", "s", "t", "/">> \o endpoint

\* C12 as the claim states it: count returns the result itself when it is
\* an integer, the integer value of a string of digits only, and 0 for
\* every other successful result of the transport.
C12_AsClaimed ==
    Succeeded("BaseResource.count") =>
        ended =
            IF IsInteger(TransportResult) THEN Return(TransportResult)
            ELSE IF IsDigitString(TransportResult)
                 THEN Return(VInt(DigitsToInt(TransportResult.s)))
                 ELSE Return(VInt(0))

\* C13: list returns the sequence itself when the transport's result is a
\* sequence, a one-element sequence holding the mapping when it is a
\* mapping, and an empty sequence for every other successful result.
C13_ListNormalises ==
    Succeeded("BaseResource.list") =>
        ended =
            IF TransportResult.t = "list" THEN Return(TransportResult)
            ELSE IF TransportResult.t = "dict" THEN Return(VList(<<TransportResult>>))
                 ELSE Return(VList(<<>>))
\* a list answered with one object has returned a sequence of that object
C13_Witness ==
    /\ op = "BaseResource.list"
    /\ replies = <<Response(200, <<"{", Quote, "n", "a", "m", "e", Quote, ":", Quote, "x", Quote, "}">>)>>
    /\ ended = Return(VList(<<VDict(Put(EmptyDict(Keys), kName, VStr(<<"x">>)))>>))

\* C14 as the claim states it: create returns the result itself when it is
\* an integer, the integer value of a digit-only string, the integer value
\* of the record_id entry of a mapping that holds one, and 0 for every
\* other successful result of the transport; it never raises on one.
C14_AsClaimed ==
    Succeeded("BaseResource.create") =>
        /\ ended.kind = "return"
        /\ ended.value.t \in {"int", "bool"}
        /\ IsInteger(TransportResult) => ended.value = TransportResult
        /\ IsDigitString(TransportResult) =>
              ended.value = VInt(DigitsToInt(TransportResult.s))
        /\ (~IsInteger(TransportResult) /\ ~IsDigitString(TransportResult)
              /\ ~(TransportResult.t = "dict" /\ TransportResult.d[kRecordId] # Absent)) =>
              ended.value = VInt(0)

\* C15 as the claim states it: every request create sends carries the
\* record id field with value 0, whatever fields the caller passes.
C15_AsClaimed ==
    (op = "BaseResource.create" /\ wire # <<>>) =>
        WireBody(wire[1])[kCrmid] = VStr(<<"0">>)

\* C16 as the claim states it: update posts the id it is given and the
\* caller's fields, and returns the result itself when it is an integer,
\* the integer value of a digit-only string, and the id it was given for
\* every other successful result of the transport.
C16_AsClaimed ==
    (Succeeded("BaseResource.update") /\ args.fields[kCrmid] = Absent) =>
        /\ wire[1].url = UrlOf(args.self._edit_endpoint)
        /\ WireBody(wire[1])[kCrmid] = VStr(IntToText(args.crmid.n))
        /\ \A k \in Keys \ ({kCrmid} \cup CredentialFields(transport._auth)) :
              WireBody(wire[1])[k] = Carried(VDict(args.fields), k)
        /\ ended =
              IF IsInteger(TransportResult) THEN Return(TransportResult)
              ELSE IF IsDigitString(TransportResult)
                   THEN Return(VInt(DigitsToInt(TransportResult.s)))
                   ELSE Return(args.crmid)

\* C17: get(id) posts the id to the get endpoint of the module and returns
\* the transport's result when it is a mapping, an empty mapping for every
\* other successful result.
C17_GetReturnsMapping ==
    (op = "BaseResource.get") =>
        /\ Len(wire) = 1
        /\ wire[1].method = POST
        /\ wire[1].url = UrlOf(args.self._get_endpoint)
        /\ WireBody(wire[1])[kCrmid] = VStr(IntToText(args.crmid.n))
        /\ Succeeded("BaseResource.get") =>
              ended =
                  IF TransportResult.t = "dict" THEN Return(TransportResult)
                  ELSE Return(VDict(EmptyDict(Keys)))
\* a get answered with a sequence has returned an empty mapping
C17_Witness ==
    /\ op = "BaseResource.get"
    /\ replies = <<Response(200, <<"[", "4", "2", "]">>)>>
    /\ wire[1].url = <<"h", "t", "t", "p", "s", ":", "/", "/", "a", "c", "m", "e", ".", "o", "p", "e", "n", "c", "r", "m", ".", "c", "o", ".", "u", "k", "/", "a", "p", "i", "/", "r", "e", "s", "t", "/", "g", "e", "t", "_", "l", "e", "a", "d">>
    /\ ended = Return(VDict(EmptyDict(Keys)))

(***************************************************************************)
(* Iteration (SpecIterate).                                                 *)
(***************************************************************************)
\* the text str() makes of the number n, as a value on the wire
Sent(n) == VStr(IntToText(n))

\* C18: against a server that holds N records and answers every list
\* request with exactly the records of the window asked for, the records a
\* generator of iterate has handed over are at every moment the first
\* records of the server, in the server's order; and once the generator
\* has come to its end they are all N of them, each once.
C18_YieldsEveryRecordInOrder ==
    \A g \in 1..Len(gens) :
        server.honours =>
            /\ Len(trace[g].given) <= server.records
            /\ \A i \in 1..Len(trace[g].given) : trace[g].given[i] = Record(i)
            /\ gens[g].state = "done" => Len(trace[g].given) = server.records
\* a server of five records iterated to the end in batches of two: the
\* last batch is the short one
C18_Witness ==
    \E g \in 1..Len(gens) :
        /\ server.honours
        /\ server.records = 5
        /\ gens[g].batch_size = 2
        /\ gens[g].state = "done"
        /\ ended = Raise(StopIteration)
        /\ trace[g].given = <<Record(1), Record(2), Record(3), Record(4), Record(5)>>

\* C19: the k-th list call of a generator of iterate (k = 0, 1, ...) asks
\* for limit_start = k*B and limit_end = (k+1)*B; every call but the last
\* returned at least B records, so that none follows a batch that is empty
\* or shorter than B; and against a server that holds N records and honours
\* the window, a generator that has come to its end has made exactly
\* floor(N/B) + 1 list calls.
C19_WindowsAdvanceUntilShort ==
    \A g \in 1..Len(gens) :
        /\ \A k \in 1..Len(trace[g].calls) :
              /\ trace[g].calls[k].limit_start = Sent((k - 1) * gens[g].batch_size)
              /\ trace[g].calls[k].limit_end = Sent(k * gens[g].batch_size)
              /\ k < Len(trace[g].calls) =>
                    trace[g].calls[k].got >= gens[g].batch_size
        /\ server.honours /\ gens[g].state = "done" =>
              Len(trace[g].calls) = (server.records \div gens[g].batch_size) + 1
\* a server of four records iterated to the end in batches of two: the
\* third call, for the window [4,6), returns the empty batch
C19_Witness ==
    \E g \in 1..Len(gens) :
        /\ server.honours
        /\ server.records = 4
        /\ gens[g].batch_size = 2
        /\ gens[g].state = "done"
        /\ Len(trace[g].calls) = 3
        /\ trace[g].calls[3].limit_start = Sent(4)
        /\ trace[g].calls[3].limit_end = Sent(6)
        /\ trace[g].calls[3].got = 0

\* C20: calling iterate puts nothing on the wire, and a generator nobody
\* has pulled from has made no list call; the first list call is made with
\* no record handed over, and each later one with every record of all the
\* batches before it handed over; and a generator suspended after its j-th
\* record has made no call after the one whose batch holds that record.
C20_PullBased ==
    /\ op = "BaseResource.iterate" => wire = <<>>
    /\ \A g \in 1..Len(gens) :
          /\ gens[g].state = "created" => trace[g].calls = <<>>
          /\ \A k \in 1..Len(trace[g].calls) :
                trace[g].calls[k].handed =
                    IF k = 1 THEN 0
                    ELSE trace[g].calls[k - 1].handed + trace[g].calls[k - 1].got
          /\ gens[g].state = "suspended" =>
                /\ trace[g].calls # <<>>
                /\ trace[g].calls[Len(trace[g].calls)].handed < Len(trace[g].given)
                /\ Len(trace[g].given) <=
                       trace[g].calls[Len(trace[g].calls)].handed
                           + trace[g].calls[Len(trace[g].calls)].got
\* a consumer that has pulled the two records of the first window of a
\* server of five and no more: the call for the second window is not made
C20_Witness ==
    \E g \in 1..Len(gens) :
        /\ server.honours
        /\ server.records = 5
        /\ gens[g].batch_size = 2
        /\ gens[g].state = "suspended"
        /\ trace[g].given = <<Record(1), Record(2)>>
        /\ Len(trace[g].calls) = 1

\* the record of a generator consumed alone to its end against the server
\* srv, from the generator `gen` with the record `t` on
RECURSIVE Alone(_, _, _, _, _, _)
Alone(gen, t, http, sessions, heap, srv) ==
    IF gen.state = "done" THEN t
    ELSE LET asked == BaseResource_iterate_next(gen, http, sessions, heap,
                                                NetworkFailure).calls
             done == BaseResource_iterate_next(
                         gen, http, sessions, heap,
                         IF asked = <<>> THEN NetworkFailure
                         ELSE CHOOSE o \in Served(srv, asked[1]) : TRUE)
         IN Alone(done.gen, Traced(t, done), done.self, done.sessions, heap, srv)
\* the record of a new generator with the arguments of `gen` consumed alone
ConsumedAlone(gen) ==
    Alone(BaseResource_iterate(gen.self, gen.query, gen.keywords, gen.batch_size),
          [calls |-> <<>>, given |-> <<>>], transport, pool, builders, server)
IsPrefix(s, t) == Len(s) <= Len(t) /\ s = SubSeq(t, 1, Len(s))

\* C21: with generators of one resource pulled from in any interleaving
\* against a server that honours the window, the first list call of each
\* generator asks for the window from 0, and the list calls each has made
\* and the records each has handed over are the first ones of what a
\* generator with its arguments makes and hands over when consumed alone,
\* and all of them once it has come to its end.
C21_SequencesIndependent ==
    \A g \in 1..Len(gens) :
        server.honours =>
            /\ trace[g].calls # <<>> => trace[g].calls[1].limit_start = Sent(0)
            /\ IsPrefix(trace[g].calls, ConsumedAlone(gens[g]).calls)
            /\ IsPrefix(trace[g].given, ConsumedAlone(gens[g]).given)
            /\ gens[g].state = "done" => trace[g] = ConsumedAlone(gens[g])
\* two generators of one resource against a server of five records: the
\* first is at the offset 2 with three records handed over and the second,
\* started after it, has made its first call and handed over one record
C21_Witness ==
    /\ Len(gens) = 2
    /\ server.honours
    /\ server.records = 5
    /\ gens[1].self = gens[2].self
    /\ gens[1].batch_size = 2
    /\ gens[2].batch_size = 2
    /\ trace[1].given = <<Record(1), Record(2), Record(3)>>
    /\ gens[1].offset = 2
    /\ trace[2].given = <<Record(1)>>
    /\ trace[2].calls[1].limit_start = Sent(0)
    /\ op = "next"
    /\ args.gen = 2

(***************************************************************************)
(* Round trips and errors of the public calls (SpecCalls).                  *)
(***************************************************************************)
\* the methods of a resource that post once and return
DirectOps ==
    {"BaseResource.count", "BaseResource.list", "BaseResource.get",
     "BaseResource.create", "BaseResource.update"}
\* the last operation was a call of one of them that Python admits: update
\* with a keyword crmid is refused before the method runs
Admitted ==
    /\ op \in DirectOps
    /\ op = "BaseResource.update" => args.fields[kCrmid] = Absent
\* what a constructor call puts on the wire: the login in session mode with
\* a configuration that is allowed, nothing otherwise
ConstructorRoundTrips ==
    op = "OpenCRMClient" =>
        Len(wire) = IF LoggedIn THEN 1 ELSE 0

\* C22 as the claim states it: each call of count, list, get, create,
\* update and iterate issues exactly one round trip; constructing a client
\* issues one in session mode and none in the other modes.
C22_AsClaimed ==
    /\ Admitted \/ op = "BaseResource.iterate" => Len(wire) = 1
    /\ ConstructorRoundTrips

\* C22: each call of count, list, get, create and update issues exactly
\* one round trip; a call of iterate issues none, and each next() of the
\* generator it returns issues one where it fetches a batch and none where
\* it does not; constructing a client issues one, the login, in session
\* mode and none in the other modes.
C22_RoundTrips ==
    /\ Admitted => Len(wire) = 1
    /\ op = "BaseResource.iterate" => wire = <<>>
    /\ op = "next" =>
          /\ Len(wire) <= 1
          /\ \A g \in 1..Len(gens) :
                Len(trace[g].calls) <= Len(trace[g].given) + 1
    /\ ConstructorRoundTrips
\* a next() that fetched the second batch of a generator: the one call on
\* the wire is the second list call of it
C22_Witness ==
    /\ op = "next"
    /\ Len(wire) = 1
    /\ wire[1].url = UrlOf(gens[args.gen].self._list_endpoint)
    /\ Len(trace[args.gen].calls) = 2
    /\ Len(trace[args.gen].given) >= 2

\* the last operation sent a request that the transport ends with an error:
\* the network failed, or the response has an error status
TransportFailed ==
    /\ op \in DirectOps \cup {"next"}
    /\ wire # <<>>
    /\ \/ replies[1].kind = "RequestError"
       \/ HTTPClient_handle_response(replies[1]).kind = "raise"
\* the error the transport raises for what the network gave back
TransportError ==
    IF replies[1].kind = "RequestError"
    THEN OpenCRMError("ConnectionError",
             <<"R", "e", "q", "u", "e", "s", "t", " ", "f", "a", "i", "l",
               "e", "d", ":", " ">> \o replies[1].text,
             VNull)
    ELSE HTTPClient_handle_response(replies[1]).exc

\* C23: when the request of count, list, get, create, update or of a batch
\* fetch of iterate ends in the transport with an error, the operation ends
\* by raising that same error (its class, message, status code and raw
\* body), no value is returned in its place, the failed request is the only
\* one on the wire, and a generator whose fetch failed has come to its end.
C23_TransportErrorPropagates ==
    TransportFailed =>
        /\ ended = Raise(TransportError)
        /\ Len(wire) = 1
        /\ op = "next" => gens[args.gen].state = "done"
\* a batch fetch of iterate answered 404: next() raises the not-found error
\* with the status and the body of the response
C23_Witness ==
    /\ TransportFailed
    /\ op = "next"
    /\ replies[1] = Response(404, <<"o", "k">>)
    /\ ended.kind = "raise"
    /\ ended.exc.cls = "NotFoundError"
    /\ ended.exc.status_code = VInt(404)
    /\ ended.exc.response_body = VStr(<<"o", "k">>)
    /\ Len(trace[args.gen].calls) = 2

(***************************************************************************)
(* The strategy of a client over its life (Spec).                           *)
(***************************************************************************)
\* the strategy the constructor arguments `a` choose, the login of the
\* session mode answered by `reply`
Chosen(a, reply) ==
    CASE a.auth_method = AuthKeys -> APIKeyAuth(VStr(a.api_key), VStr(a.pass_key))
      [] a.auth_method = AuthHeaders -> HeaderAuth(VStr(a.api_key), VStr(a.pass_key))
      [] a.auth_method = AuthSession -> SessionAuth(KeyIn(reply[1]))
\* the credentials of the strategy `auth` are on the call, and those of no
\* other strategy
AppliedTo(auth, call) ==
    /\ WireBody(call)[kApikey] =
           IF auth.cls = "APIKeyAuth" THEN auth.api_key ELSE Carried(args'.data, kApikey)
    /\ WireBody(call)[kPasskey] =
           IF auth.cls = "APIKeyAuth" THEN auth.pass_key ELSE Carried(args'.data, kPasskey)
    /\ WireBody(call)[kAccesskey] =
           IF auth.cls = "SessionAuth" THEN auth.access_key
           ELSE Carried(args'.data, kAccesskey)
    /\ call.headers[hKEY1] = IF auth.cls = "HeaderAuth" THEN auth.api_key ELSE Absent
    /\ call.headers[hKEY2] = IF auth.cls = "HeaderAuth" THEN auth.pass_key ELSE Absent
\* one step of the life of the strategy of a client
C24_Step ==
    /\ (op' = "OpenCRMClient" /\ crm' # Absent) =>
          transport'._auth = Chosen(args', replies')
    /\ transport # Absent =>
          /\ transport' # Absent
          /\ transport'._auth = transport._auth
    /\ op' \in {"get", "post"} => AppliedTo(transport._auth, wire'[1])

\* C24: the constructor chooses one strategy, the one its auth mode names,
\* with the keys it was given or the key its login returned; no request,
\* whether answered or failed, and no close or exit, before or after the
\* session is created anew, changes the strategy or its credentials; and
\* every request carries the credentials of that strategy and of no other.
C24_StrategyConstant == [][C24_Step]_vars
\* a request of a session client after a close, on a second session, that
\* the network fails: the key of the login is in its body
C24_Witness ==
    /\ op = "post"
    /\ transport._auth.cls = "SessionAuth"
    /\ Len(pool) = 2
    /\ pool[1].is_closed
    /\ wire[1].via = 2
    /\ replies[1].kind = "RequestError"
    /\ WireBody(wire[1])[kAccesskey] = transport._auth.access_key

(***************************************************************************)
(* The body and the headers of a request (Spec).                            *)
(***************************************************************************)
\* the entry of the caller's body under the key k: Absent where the caller
\* passed no body or no such entry
CallerEntry(k) == IF args.data.t = "dict" THEN args.data.d[k] ELSE Absent
\* the fixed content type and the configured user agent are on the call
FixedHeaders(call) ==
    /\ call.headers[hContentType] = VStr(MultipartFormData)
    /\ call.headers[hUserAgent] = VStr(crm._user_agent)

\* C25 as the claim states it: on every request, in each auth mode, every
\* entry of the caller's body with a null value is omitted and every other
\* entry is sent as its string form; the headers hold the fixed content
\* type and the configured user agent.
C25_AsClaimed ==
    Requested =>
        /\ \A k \in Keys :
              /\ CallerEntry(k) = VNull => WireBody(wire[1])[k] = Absent
              /\ CallerEntry(k) \notin {Absent, VNull} =>
                    WireBody(wire[1])[k] = VStr(str(CallerEntry(k)))
        /\ FixedHeaders(wire[1])

\* C25: on every request, in each auth mode, every entry of the caller's
\* body that is not named as a credential field of the client's strategy
\* is omitted when its value is null and sent as its string form
\* otherwise; an entry named as a credential field of the strategy (apikey
\* and passkey in keys mode, accesskey in session mode) is replaced by the
\* credential; the headers hold the fixed content type and the configured
\* user agent.
C25_BodyAndHeaders ==
    Requested =>
        /\ \A k \in Keys \ CredentialFields(transport._auth) :
              /\ CallerEntry(k) \in {Absent, VNull} => WireBody(wire[1])[k] = Absent
              /\ CallerEntry(k) \notin {Absent, VNull} =>
                    WireBody(wire[1])[k] = VStr(str(CallerEntry(k)))
        /\ \A f \in Filled(transport._auth, "apply_to_request") :
              WireBody(wire[1])[f[1]] = f[2]
        /\ FixedHeaders(wire[1])
\* a post of a header-mode client with a user agent of its own and the body
\* {crmid: 120, name: None}: crmid goes out as "120", name does not go out
C25_Witness ==
    /\ op = "post"
    /\ transport._auth.cls = "HeaderAuth"
    /\ crm._user_agent # DEFAULT_USER_AGENT
    /\ args.data = TypicalData
    /\ WireBody(wire[1])[kCrmid] = VStr(<<"1", "2", "0">>)
    /\ WireBody(wire[1])[kName] = Absent
    /\ wire[1].headers[hUserAgent] = VStr(crm._user_agent)
    /\ wire[1].headers[hContentType] = VStr(MultipartFormData)

(***************************************************************************)
(* The endpoints of the resources (SpecCalls).                              *)
(***************************************************************************)
\* the endpoint of the resource `self` the operation `name` is bound to
EndpointFor(name, self) ==
    CASE name = "BaseResource.count" -> self._count_endpoint
      [] name \in {"BaseResource.list", "next"} -> self._list_endpoint
      [] name = "BaseResource.get" -> self._get_endpoint
      [] name \in {"BaseResource.create", "BaseResource.update"} -> self._edit_endpoint
\* the resource the last operation was called on
Addressed == IF op = "next" THEN gens[args.gen].self ELSE args.self
\* one step of a caller of the resources
C26_Step ==
    /\ (op' \in DirectOps \cup {"next"} /\ wire' # <<>>) =>
          /\ Len(wire') = 1
          /\ wire'[1].url = UrlOf(EndpointFor(op', Addressed'))
          /\ \A other \in Resources \ {Addressed'} :
                \A e \in EndpointsOf(other) : wire'[1].url # UrlOf(e)
    /\ \A g \in 1..Len(gens) : gens'[g].self = gens[g].self
    /\ op' = "next" => gens'[args'.gen].self \in Modules

\* C26: count sends its request to the count endpoint of the module of its
\* resource, list and each batch fetch of iterate to its list endpoint, get
\* to its get endpoint, create and update to its edit endpoint; the request
\* addresses no endpoint of any other module of the library; and the
\* resource a generator was made from, with its four endpoint names, is the
\* same after every operation.
C26_EndpointsOfModule == [][C26_Step]_vars
\* a batch fetch of an iteration of the products after the first, sent to
\* get_product_list
C26_Witness ==
    /\ op = "next"
    /\ Len(wire) = 1
    /\ gens[args.gen].self = ProductsResource
    /\ gens[args.gen].offset > 0
    /\ wire[1].url = UrlOf(<<"g", "e", "t", "_", "p", "r", "o", "d", "u", "c", "t", "_", "l", "i", "s", "t">>)

(***************************************************************************)
(* Filtering with a query builder (SpecFilter).                             *)
(***************************************************************************)
\* the query the last operation filters with
QueryOf == IF op = "next" THEN gens[args.gen].query ELSE args.query

\* C27: the request of count, of list and of each batch fetch of iterate
\* called with a query builder carries, when the builder holds conditions
\* at the time of the request, a query_string equal to the first of them,
\* and no field query_string when it holds none; it carries none either
\* when the query is null or the empty string.
C27_FirstConditionOnly ==
    (op \in {"BaseResource.count", "BaseResource.list", "next"} /\ wire # <<>>) =>
        WireBody(wire[1])[kQueryString] =
            IF QueryOf.t = "ref" /\ builders[QueryOf.ref] # <<>>
            THEN VStr(builders[QueryOf.ref][1])
            ELSE Absent
\* the second batch fetch of an iteration filtered with a builder of two
\* different conditions: the first of them is the query_string
C27_Witness ==
    /\ op = "next"
    /\ wire # <<>>
    /\ Len(trace[args.gen].calls) = 2
    /\ QueryOf.t = "ref"
    /\ Len(builders[QueryOf.ref]) = 2
    /\ builders[QueryOf.ref][1] # builders[QueryOf.ref][2]
    /\ WireBody(wire[1])[kQueryString] = VStr(builders[QueryOf.ref][1])

(***************************************************************************)
(* The form of a condition (SpecQuery).                                     *)
(***************************************************************************)
\* the five symbols of Operator
OperatorSymbols ==
    { <<"=">>, <<"L", "I", "K", "E">>, <<"B", "E", "G", "I", "N", "S">>,
      <<"E", "N", "D", "S">>, <<"C", "O", "N", "T", "A", "I", "N", "S">> }
\* the text c is field|OPERATOR|value with OPERATOR one of the five symbols
HasOperatorForm(c) ==
    \E i, j \in 1..Len(c) :
        /\ i < j
        /\ c[i] = "|"
        /\ c[j] = "|"
        /\ SubSeq(c, i + 1, j - 1) \in OperatorSymbols

\* C28 as the claim states it: every condition a query builder holds, and
\* every condition build returns, has the form field|OPERATOR|value with
\* OPERATOR one of =, LIKE, BEGINS, ENDS, CONTAINS.
C28_AsClaimed ==
    /\ \A q \in DOMAIN builders :
          \A i \in 1..Len(builders[q]) : HasOperatorForm(builders[q][i])
    /\ (op = "build" /\ ended.value # VNull) => HasOperatorForm(ended.value.s)

(***************************************************************************)
(* The timeout of the HTTP calls (SpecLogin).                               *)
(***************************************************************************)
\* the timeout of every call the last operation put on the wire is t
TimedBy(t) == \A i \in 1..Len(wire) : wire[i].timeout = t

\* C29 as the claim states it: the timeout given to the constructor is the
\* timeout of every HTTP call of the client: of each API request and, in
\* session mode, of the login call.
C29_AsClaimed ==
    /\ op = "OpenCRMClient" => TimedBy(args.timeout)
    /\ Requested => TimedBy(crm._timeout)

(***************************************************************************)
(* Sessions after close (Spec).                                             *)
(***************************************************************************)
\* the sessions of `sessions` that are open
OpenIn(sessions) == {i \in 1..Len(sessions) : ~sessions[i].is_closed}
\* one step of a transport with respect to its sessions
C30_Step ==
    /\ Cardinality(OpenIn(pool')) <= 1
    /\ Len(pool') # Len(pool) =>
          /\ op' \in {"get", "post"}
          /\ OpenIn(pool) = {}
          /\ Len(pool') = Len(pool) + 1
          /\ OpenIn(pool') = {Len(pool')}
    /\ (op' \in {"get", "post"} /\ op \in ReleaseOps) =>
          /\ Len(pool') = Len(pool) + 1
          /\ Len(wire') = 1
          /\ wire'[1].via = Len(pool')
          /\ transport'._client = Len(pool')
          /\ replies'[1].kind = "response" =>
                ended' = HTTPClient_handle_response(replies'[1])

\* C30: a request made after close() or after the exit of a with-block
\* creates a new session, goes out on it and ends as the answer of the
\* network says; at every moment at most one session the transport has
\* created is open; and a session is created only by a request and only
\* when every session created before is closed.
C30_CloseNotTerminal == [][C30_Step]_vars
\* a post on the second session of a transport, the first one closed,
\* that returns what the server answered
C30_Witness ==
    /\ op = "post"
    /\ Len(pool) = 2
    /\ OpenIn(pool) = {2}
    /\ transport._client = 2
    /\ wire[1].via = 2
    /\ replies[1].kind = "response"
    /\ ended = HTTPClient_handle_response(replies[1])
    /\ ended.kind = "return"

====
